---------------------------- MODULE Spec2Model ----------------------------
(***************************************************************************)
(* Model of the evaluation harness: the EvaluationOrchestrator             *)
(* (evaluation/orchestrator.py), the three component registries and the    *)
(* SQLite ResultsStorage (evaluation/results.py).                          *)
(*                                                                         *)
(* A behaviour is one process: the registries are in their module-load     *)
(* state, one configuration dictionary is handed to the orchestrator's     *)
(* constructor, and run_full_evaluation is awaited once.  Steps are the    *)
(* stretches of code between two suspension points of the asyncio loop.    *)
(***************************************************************************)
EXTENDS Integers, Sequences, FiniteSets, TLC

(***************************************************************************)
(* Bounds of the model.                                                    *)
(***************************************************************************)
MaxProviders == 2      \* provider sections in a configuration
MaxLen == 2            \* length of the enabled_models, memory_methods and
                       \* executed_benchmarks lists
MaxConc == 2           \* largest concurrent_evaluations value
MaxPlan == 3           \* largest run plan that is executed
MaxInstances == 2      \* ResultsStorage instances on one results directory
MaxRuns == 3           \* rows ever stored by direct calls on the store
MaxClock == 1          \* seconds that pass during those calls
MaxRegistrations == 2  \* register calls made on the registries
MaxObjects == 2        \* objects created through the registries
MaxText == 5           \* characters of a text given to TruncationMemory.process
MaxTokens == 2         \* largest max_tokens of an instance or a process call
MaxSamples == 3        \* samples of the dataset a benchmark run goes through

(***************************************************************************)
(* The clock the store and the orchestrator read, in seconds.              *)
(***************************************************************************)
VARIABLE now

(***************************************************************************)
(* Names occurring in configurations.  "custom" is a provider section no   *)
(* provider class is registered for, "summary" a memory method that is not *)
(* registered, "other" a benchmark name the orchestrator does not know.    *)
(***************************************************************************)
ProviderNames == {"ollama", "openrouter", "custom"}
ModelNames == {"m1", "m2"}
Catalogs == {<<"m1">>, <<"m1", "m2">>}   \* the models lists of a provider
RunCatalogs == {<<"m1">>}                \* those of a configuration that is executed
MethodNames == {"truncation", "summary"}
BenchmarkNames == {"nestful", "other"}

None == "<none>"       \* Python's None

BSeq(S, n) == UNION {[1..k -> S] : k \in 0..n}

Range(s) == {s[i] : i \in DOMAIN s}

(***************************************************************************)
(* An entry of the configuration dictionary: present with a value, or      *)
(* missing.  Get is dict.get(key, default).                                *)
(***************************************************************************)
Present(v) == [has |-> TRUE, val |-> v]
Missing(v) == [has |-> FALSE, val |-> v]
Get(entry, default) == IF entry.has THEN entry.val ELSE default

(***************************************************************************)
(* A provider section: either a mapping with a models list and an          *)
(* enabled_models list, or a value that is not a mapping.                  *)
(***************************************************************************)
ProviderConfigs(catalogs) ==
    [name : ProviderNames, isDict : {TRUE}, models : catalogs,
     enabled_models : BSeq(ModelNames, MaxLen)]
    \cup [name : ProviderNames, isDict : {FALSE}, models : {<<>>},
          enabled_models : {<<>>}]

\* An insertion-ordered mapping has each key once.
DistinctNames(ps) == \A i, j \in DOMAIN ps : i # j => ps[i].name # ps[j].name

ProviderMappings(catalogs) ==
    {ps \in BSeq(ProviderConfigs(catalogs), MaxProviders) : DistinctNames(ps)}

Configs(catalogs) ==
    [providers : ProviderMappings(catalogs),
     memory_methods : {Present(l) : l \in BSeq(MethodNames, MaxLen)}
                          \cup {Missing(<<>>)},
     executed_benchmarks : {Present(l) : l \in BSeq(BenchmarkNames, MaxLen)}
                          \cup {Missing(<<>>)},
     concurrent_evaluations : {Present(n) : n \in 0..MaxConc} \cup {Missing(0)}]

(***************************************************************************)
(* _parse_model_specs: the enabled models of every provider, in provider   *)
(* order, or the ValueError the first offending provider causes.           *)
(***************************************************************************)
\* the enabled models of a provider, last one first
ModelSpecsOfReversed(provider) ==
    [i \in 1..Len(provider.enabled_models) |->
        [name |-> provider.enabled_models[Len(provider.enabled_models) + 1 - i],
         provider |-> provider.name]]

ModelSpecsOf(provider) ==
    [i \in 1..Len(provider.enabled_models) |->
        [name |-> provider.enabled_models[i], provider |-> provider.name]]

\* set(enabled_models) - set(available_models)
InvalidModels(provider) == Range(provider.enabled_models) \ Range(provider.models)

\* the parse without the check of the enabled models
RECURSIVE ParseProvidersUnvalidated(_, _)
ParseProvidersUnvalidated(providers, models) ==
    IF providers = <<>> THEN [error |-> None, models |-> models]
    ELSE LET provider == Head(providers) IN
         IF ~provider.isDict THEN ParseProvidersUnvalidated(Tail(providers), models)
         ELSE ParseProvidersUnvalidated(Tail(providers), models \o ModelSpecsOf(provider))

RECURSIVE ParseProviders(_, _)
ParseProviders(providers, models) ==
    IF providers = <<>> THEN [error |-> None, models |-> models]
    ELSE LET provider == Head(providers) IN
         IF ~provider.isDict THEN ParseProviders(Tail(providers), models)
         ELSE IF InvalidModels(provider) # {}
              THEN [error |-> "invalid enabled models", models |-> <<>>]
              ELSE ParseProviders(Tail(providers), models \o ModelSpecsOf(provider))

_parse_model_specs(config) ==
    IF config.providers = <<>>
    THEN [error |-> "No providers configured", models |-> <<>>]
    ELSE LET parsed == ParseProviders(config.providers, <<>>) IN
         IF parsed.error # None THEN parsed
         ELSE IF parsed.models = <<>>
              THEN [error |-> "No models enabled", models |-> <<>>]
              ELSE parsed

(***************************************************************************)
(* validate_enabled_models (config_utils): one error per provider whose    *)
(* enabled models are not all available.                                   *)
(***************************************************************************)
validate_enabled_models(config) ==
    {i \in DOMAIN config.providers : InvalidModels(config.providers[i]) # {}}

(***************************************************************************)
(* itertools.product of three lists: the last list varies fastest.         *)
(***************************************************************************)
\* a product whose middle index forgets the stride of the last list
ProductMisindexed(ms, mems, bs) ==
    [t \in 1..(Len(ms) * Len(mems) * Len(bs)) |->
        [model |-> ms[((t - 1) \div (Len(bs) * Len(mems))) + 1],
         memory_method |-> mems[((t - 1) % Len(mems)) + 1],
         benchmark |-> bs[((t - 1) % Len(bs)) + 1]]]

Product(ms, mems, bs) ==
    [t \in 1..(Len(ms) * Len(mems) * Len(bs)) |->
        [model |-> ms[((t - 1) \div (Len(bs) * Len(mems))) + 1],
         memory_method |-> mems[(((t - 1) \div Len(bs)) % Len(mems)) + 1],
         benchmark |-> bs[((t - 1) % Len(bs)) + 1]]]

(***************************************************************************)
(* The registries at module load: name -> registered class.                *)
(***************************************************************************)
InitialProviders == [n \in {"ollama", "openrouter"} |->
                        IF n = "ollama" THEN "OllamaModel" ELSE "OpenRouterModel"]
InitialMethods == [n \in {"truncation"} |-> "TruncationMemory"]
InitialBenchmarks == [n \in {} |-> "NoAdapter"]

\* dict[name] = cls
Register(registry, name, cls) ==
    [n \in DOMAIN registry \cup {name} |-> IF n = name THEN cls ELSE registry[n]]

(***************************************************************************)
(* _register_benchmarks_from_config: nestful and mcpbench are registered   *)
(* when their adapter module imports; any other name is skipped.           *)
(***************************************************************************)
AdapterOf(benchmark_name) ==
    IF benchmark_name = "nestful" THEN "NestfulAdapter" ELSE "MCPBenchAdapter"

RECURSIVE RegisterBenchmarks(_, _, _)
RegisterBenchmarks(registry, names, importable) ==
    IF names = <<>> THEN registry
    ELSE LET benchmark_name == Head(names) IN
         IF benchmark_name \in {"nestful", "mcpbench"} /\ benchmark_name \in importable
         THEN RegisterBenchmarks(Register(registry, benchmark_name, AdapterOf(benchmark_name)),
                                 Tail(names), importable)
         ELSE RegisterBenchmarks(registry, Tail(names), importable)

(***************************************************************************)
(* ResultsStorage.  The database is the committed rows of evaluation_runs  *)
(* and the AUTOINCREMENT counter of the table.                             *)
(***************************************************************************)
EmptyDb == [rows |-> <<>>, seq |-> 0]

\* dict.get(key, default) on a dictionary written as a record
DictGet(d, key, default) == IF key \in DOMAIN d THEN d[key] ELSE default

(***************************************************************************)
(* Python values of a results payload and the JSON texts json.dumps makes  *)
(* of them.  A dictionary is a set of entries whose keys are str or int,   *)
(* a JSON object has string keys only, a tuple and a list both become a    *)
(* JSON array, and a set has no JSON form (json.dumps raises TypeError).   *)
(***************************************************************************)
PyStr(v) == [t |-> "str", v |-> v]
PyInt(v) == [t |-> "int", v |-> v]
PyDict(entries) == [type |-> "dict", entries |-> entries]
PyList(items) == [type |-> "list", items |-> items]
PyTuple(items) == [type |-> "tuple", items |-> items]
PySet(items) == [type |-> "set", items |-> items]

EmptyDict == PyDict({})
Metrics == PyDict({[key |-> PyStr("score"), val |-> 1]})

Serializable(value) == value.type \in {"dict", "list", "tuple"}

\* json.dumps: keys are written as strings, tuples as arrays
dumps(value) ==
    IF value.type = "dict"
    THEN [json |-> "object",
          entries |-> {[key |-> e.key.v, val |-> e.val] : e \in value.entries}]
    ELSE [json |-> "array", items |-> value.items]

\* json.loads: an object is read as a dict with str keys, an array as a list
loads(text) ==
    IF text.json = "object"
    THEN PyDict({[key |-> PyStr(e.key), val |-> e.val] : e \in text.entries})
    ELSE PyList(text.items)

\* a model value that is not a mapping is written [repr |-> its str()]
IsMapping(value) == "repr" \notin DOMAIN value

\* the row with two values of the INSERT in each other's place
RowOfSwapped(result, id) ==
    LET model_info == DictGet(result, "model", <<>>) IN
    [id |-> id,
     timestamp |-> DictGet(result, "timestamp", now),
     model_name |-> IF IsMapping(model_info) THEN DictGet(model_info, "name", None)
                    ELSE model_info.repr,
     model_provider |-> IF IsMapping(model_info)
                        THEN DictGet(model_info, "provider", "unknown")
                        ELSE "unknown",
     memory_method |-> DictGet(result, "benchmark", "unknown"),
     benchmark |-> DictGet(result, "memory_method", "unknown"),
     status |-> DictGet(result, "status", "unknown"),
     duration_seconds |-> DictGet(result, "duration_seconds", None),
     results_json |-> dumps(DictGet(result, "results", EmptyDict)),
     created_at |-> now]

\* the row save_result builds from a result dictionary; created_at is the
\* CURRENT_TIMESTAMP default of the column
RowOf(result, id) ==
    LET model_info == DictGet(result, "model", <<>>) IN
    [id |-> id,
     timestamp |-> DictGet(result, "timestamp", now),
     model_name |-> IF IsMapping(model_info) THEN DictGet(model_info, "name", None)
                    ELSE model_info.repr,
     model_provider |-> IF IsMapping(model_info)
                        THEN DictGet(model_info, "provider", "unknown")
                        ELSE "unknown",
     memory_method |-> DictGet(result, "memory_method", "unknown"),
     benchmark |-> DictGet(result, "benchmark", "unknown"),
     status |-> DictGet(result, "status", "unknown"),
     duration_seconds |-> DictGet(result, "duration_seconds", None),
     results_json |-> dumps(DictGet(result, "results", EmptyDict)),
     created_at |-> now]

\* the NOT NULL columns of evaluation_runs that a result can leave empty
ViolatesNotNull(row) == row.model_name = None

\* an INSERT into a table whose key is not AUTOINCREMENT: the identifier is
\* one more than the largest one in the table
InsertAfterLargest(db, result) ==
    LET largest == IF db.rows = <<>> THEN 0
                   ELSE CHOOSE n \in {db.rows[i].id : i \in DOMAIN db.rows} :
                            \A i \in DOMAIN db.rows : db.rows[i].id <= n
    IN [rows |-> Append(db.rows, RowOf(result, largest + 1)), seq |-> largest + 1]

\* cursor.execute(INSERT ...): the row is in the open transaction
Insert(db, result) ==
    [rows |-> Append(db.rows, RowOf(result, db.seq + 1)), seq |-> db.seq + 1]

\* conn.commit() makes the transaction the database; conn.rollback() drops it
Commit(db, tx) == tx
\* a rollback that leaves the inserted row behind
RollbackKeepsInsert(db, tx) == tx
Rollback(db, tx) == db

\* Where the environment can make a save_result call fail: connecting,
\* serialising the results payload (only a success result carries one), the
\* INSERT, the commit.  The call also fails when the payload has no JSON form
\* and when the row breaks a NOT NULL constraint.
SaveFaults == {"none", "connect", "serialize", "insert", "commit"}

FaultsFor(result) ==
    IF result.status = "success" THEN SaveFaults ELSE SaveFaults \ {"serialize"}

save_result(db, result, fault) ==
    IF fault = "connect" THEN [db |-> db, raised |-> TRUE, id |-> 0]
    ELSE IF fault = "serialize" \/ ~Serializable(DictGet(result, "results", EmptyDict))
         THEN [db |-> Rollback(db, db), raised |-> TRUE, id |-> 0]
    ELSE IF fault = "insert" \/ ViolatesNotNull(RowOf(result, db.seq + 1))
         THEN [db |-> Rollback(db, db), raised |-> TRUE, id |-> 0]
    ELSE LET tx == Insert(db, result) IN
         IF fault = "commit" THEN [db |-> Rollback(db, tx), raised |-> TRUE, id |-> 0]
         ELSE [db |-> Commit(db, tx), raised |-> FALSE, id |-> tx.seq]

(***************************************************************************)
(* Reading the store.  get_result and query_results build a dictionary     *)
(* from the columns of a row and parse results_json back.                  *)
(***************************************************************************)
RunOf(row) ==
    [id |-> row.id, timestamp |-> row.timestamp, model_name |-> row.model_name,
     model_provider |-> row.model_provider, memory_method |-> row.memory_method,
     benchmark |-> row.benchmark, status |-> row.status,
     duration_seconds |-> row.duration_seconds,
     results |-> loads(row.results_json), created_at |-> row.created_at]

NoRun == [id |-> 0]

RowsWithId(db, id) == SelectSeq(db.rows, LAMBDA row : row.id = id)

\* found is FALSE where the method returns None
get_result(db, id) ==
    IF RowsWithId(db, id) # <<>>
    THEN [found |-> TRUE, run |-> RunOf(RowsWithId(db, id)[1])]
    ELSE [found |-> FALSE, run |-> NoRun]

(***************************************************************************)
(* query_results.  A filter is added to the WHERE clause when its value is *)
(* truthy, as is the LIMIT; the rows come ORDER BY created_at DESC, which  *)
(* leaves the order of rows with equal created_at to the database.         *)
(***************************************************************************)
Truthy(value) == value \notin {None, ""}

FilterNames == {"model_name", "model_provider", "memory_method", "benchmark", "status"}

\* a WHERE clause that joins the conditions with OR
MatchesAny(row, filters) ==
    \/ \A name \in FilterNames : ~Truthy(filters[name])
    \/ \E name \in FilterNames : Truthy(filters[name]) /\ row[name] = filters[name]

Matches(row, filters) ==
    \A name \in FilterNames : Truthy(filters[name]) => row[name] = filters[name]

\* the permutations of 1..n
PermutationsOf ==
    [n \in 0..(MaxRuns + 1) |->
        {q \in [1..n -> 1..n] : \A i, j \in 1..n : i # j => q[i] # q[j]}]

\* The orders in which ORDER BY created_at may deliver the rows: rows with
\* equal created_at come in any order.  Ascending is ORDER BY created_at ASC,
\* Descending the ORDER BY created_at DESC of query_results.
Ascending(rows) ==
    {[i \in DOMAIN rows |-> rows[p[i]]] :
        p \in {q \in PermutationsOf[Len(rows)] :
                  \A i \in 1..(Len(rows) - 1) :
                      rows[q[i]].created_at <= rows[q[i + 1]].created_at}}

Descending(rows) ==
    {[i \in DOMAIN rows |-> rows[p[i]]] :
        p \in {q \in PermutationsOf[Len(rows)] :
                  \A i \in 1..(Len(rows) - 1) :
                      rows[q[i]].created_at >= rows[q[i + 1]].created_at}}

\* LIMIT ?, added when limit is truthy (neither None nor 0)
Limited(rows, limit) ==
    IF limit.has /\ limit.val # 0
    THEN IF 0 <= limit.val /\ limit.val < Len(rows)
         THEN SubSeq(rows, 1, limit.val) ELSE rows
    ELSE rows

\* the lists query_results may return
query_results(db, filters, limit) ==
    LET selected == SelectSeq(db.rows, LAMBDA row : Matches(row, filters)) IN
    {[i \in DOMAIN Limited(ordered, limit) |-> RunOf(ordered[i])] :
        ordered \in Descending(selected)}

(***************************************************************************)
(* get_summary, delete_result and clear_all_results.  DELETE leaves the    *)
(* AUTOINCREMENT counter of the table as it is.                            *)
(***************************************************************************)
CountRows(db, status) ==
    Cardinality({i \in DOMAIN db.rows : db.rows[i].status = status})

\* a summary whose total is the AUTOINCREMENT counter, not COUNT(*)
GetSummaryByCounter(db) ==
    [total_runs |-> db.seq,
     successful_runs |-> CountRows(db, "success"),
     failed_runs |-> CountRows(db, "error"),
     success_rate |-> IF Len(db.rows) > 0
                      THEN <<CountRows(db, "success"), Len(db.rows)>> ELSE <<0, 1>>,
     models |-> {db.rows[i].model_name : i \in DOMAIN db.rows},
     memory_methods |-> {db.rows[i].memory_method : i \in DOMAIN db.rows},
     benchmarks |-> {db.rows[i].benchmark : i \in DOMAIN db.rows}]

get_summary(db) ==
    [total_runs |-> Len(db.rows),
     successful_runs |-> CountRows(db, "success"),
     failed_runs |-> CountRows(db, "error"),
     success_rate |-> IF Len(db.rows) > 0
                      THEN <<CountRows(db, "success"), Len(db.rows)>> ELSE <<0, 1>>,
     models |-> {db.rows[i].model_name : i \in DOMAIN db.rows},
     memory_methods |-> {db.rows[i].memory_method : i \in DOMAIN db.rows},
     benchmarks |-> {db.rows[i].benchmark : i \in DOMAIN db.rows}]

\* delete_result with deleted = cursor.rowcount >= 0
DeleteReportsAlways(db, id) ==
    [db |-> [rows |-> SelectSeq(db.rows, LAMBDA row : row.id # id), seq |-> db.seq],
     deleted |-> TRUE]

delete_result(db, id) ==
    [db |-> [rows |-> SelectSeq(db.rows, LAMBDA row : row.id # id), seq |-> db.seq],
     deleted |-> RowsWithId(db, id) # <<>>]

clear_all_results(db) == [rows |-> <<>>, seq |-> db.seq]

\* CREATE TABLE IF NOT EXISTS and CREATE INDEX IF NOT EXISTS on a database
\* that has them change nothing; InitializeAfresh is DROP TABLE and CREATE TABLE.
InitializeAfresh(db) == EmptyDb
_initialize_database(db) == db

(***************************************************************************)
(* State.                                                                  *)
(***************************************************************************)
VARIABLES
    given,                  \* history: what validation says of the configuration
                            \* handed to __init__
    phase,                  \* where the caller is: "new", "load_error",
                            \* "config_error", "ready", "sequential",
                            \* "gathering", "returned", "raised"
    providers_registry,     \* ModelRegistry._providers
    methods_registry,       \* MemoryRegistry._methods
    benchmarks_registry,    \* BenchmarkRegistry._benchmarks
    model_specs,            \* self.model_specs
    memory_methods,         \* self.memory_methods
    benchmarks,             \* self.benchmarks
    concurrent_evaluations, \* self.concurrent_evaluations
    combinations,           \* the run plan of run_full_evaluation
    index,                  \* position of the sequential loop
    semaphore,              \* value of the asyncio.Semaphore
    lifecycle,              \* per combination: the states it has been through
    task,                   \* per combination: "none", "returned" or "raised"
    produced,               \* per combination: the result dictionary made for it
    results,                \* the results list of run_full_evaluation
    summary,                \* the summary run_full_evaluation returned
    db,                     \* the results database
    save_log,               \* history: the save_result calls, in call order
    raised_at,              \* history: per combination, the step that raised
    invocations,            \* history: per combination, the run_benchmark calls
    last,                   \* history: the last call made on the store and
                            \* what it returned
    issued,                 \* history: the identifiers save_result returned, each
                            \* with the result it was returned for
    open,                   \* per ResultsStorage instance: the transaction of
                            \* the save_result call it is in
    heap,                   \* the objects the registries have created, by address
    reglog,                 \* history: the register calls, in call order
    benchmark_run,          \* the run_benchmark call of a benchmark adapter
    timer,                  \* the time of the event loop and, per combination
                            \* in run_benchmark, the time at which it returns
    mcp_run,                \* the benchmark configuration block the mcpbench
                            \* adapters share, and their run_benchmark calls
    component_benchmarks,   \* BenchmarkRegistry._benchmarks of the registries
                            \* module
    providers_config        \* the providers section of a configuration that
                            \* enable_model and disable_model work on

vars == <<given, phase, providers_registry, methods_registry, benchmarks_registry,
          model_specs, memory_methods, benchmarks, concurrent_evaluations,
          combinations, index, semaphore, lifecycle, task, produced, results,
          summary, db, save_log, raised_at, invocations, now, last, issued, open,
          heap, reglog, benchmark_run, timer, mcp_run, component_benchmarks,
                   providers_config>>

registries == <<providers_registry, methods_registry, benchmarks_registry>>
fields == <<model_specs, memory_methods, benchmarks, concurrent_evaluations>>
execution == <<combinations, index, semaphore, lifecycle, task, produced, results,
               summary, db, save_log, raised_at, invocations>>
storage == <<now, last, issued, open>>
components == <<heap, reglog, benchmark_run, timer, mcp_run, component_benchmarks,
                   providers_config>>

NoModel == [name |-> None, provider |-> None]
NoResult == [model |-> NoModel, memory_method |-> None, benchmark |-> None,
             status |-> "none"]
NoSummary == [total_runs |-> -1, successful_runs |-> -1, failed_runs |-> -1,
              success_rate |-> <<0, 1>>, results |-> <<>>, models_tested |-> {},
              memory_methods_tested |-> {}, benchmarks_tested |-> {}]

\* the plan a configuration leads to (empty when construction fails)
PlanOf(cfg) ==
    Product(_parse_model_specs(cfg).models, Get(cfg.memory_methods, <<"truncation">>),
            Get(cfg.executed_benchmarks, <<>>))

\* the configurations whose plan is small enough to be executed here
SmallConfigs == {cfg \in Configs(RunCatalogs) : Len(PlanOf(cfg)) <= MaxPlan}

\* what the validation helpers of config_utils report for a configuration
Validation(cfg) ==
    [no_providers |-> cfg.providers = <<>>, errors |-> validate_enabled_models(cfg)]

NotGiven == [no_providers |-> FALSE, errors |-> {}]

\* the ResultsStorage instances opened on the results directory
Instances == 1..MaxInstances
NoTx == [state |-> "idle"]
NoCall == [op |-> "none"]
NoRunning == [state |-> "idle"]
NoTimer == [clock |-> 0, deadline |-> <<>>]
NoBlock == [state |-> "none"]
NoConfig == [state |-> "none"]

Init ==
    /\ given = NotGiven
    /\ phase = "new"
    /\ providers_registry = InitialProviders
    /\ methods_registry = InitialMethods
    /\ benchmarks_registry = InitialBenchmarks
    /\ model_specs = <<>>
    /\ memory_methods = <<>>
    /\ benchmarks = <<>>
    /\ concurrent_evaluations = 0
    /\ combinations = <<>>
    /\ index = 0
    /\ semaphore = 0
    /\ lifecycle = <<>>
    /\ task = <<>>
    /\ produced = <<>>
    /\ results = <<>>
    /\ summary = NoSummary
    /\ db = EmptyDb
    /\ save_log = <<>>
    /\ raised_at = <<>>
    /\ invocations = <<>>
    /\ now = 0
    /\ last = NoCall
    /\ issued = <<>>
    /\ open = [i \in Instances |-> NoTx]
    /\ heap = <<>>
    /\ reglog = <<>>
    /\ benchmark_run = NoRunning
    /\ timer = NoTimer
    /\ mcp_run = NoBlock
    /\ component_benchmarks = InitialBenchmarks
    /\ providers_config = NoConfig

(***************************************************************************)
(* EvaluationOrchestrator.__init__.  The storage is opened, the model      *)
(* catalog is loaded from the configuration file (which may be missing),   *)
(* the benchmarks are registered and only then are the model               *)
(* specifications parsed.                                                  *)
(***************************************************************************)
Construct(configs) ==
    /\ phase = "new"
    /\ \/ /\ phase' = "load_error"
          /\ UNCHANGED <<given, registries, fields>>
       \/ \E config \in configs :
          \E importable \in SUBSET (Range(Get(config.executed_benchmarks, <<>>))
                                       \cap {"nestful", "mcpbench"}) :
             LET parsed == _parse_model_specs(config) IN
             /\ given' = Validation(config)
             /\ benchmarks_registry' =
                    RegisterBenchmarks(benchmarks_registry,
                                       Get(config.executed_benchmarks, <<>>), importable)
             /\ UNCHANGED <<providers_registry, methods_registry>>
             /\ IF parsed.error # None
                THEN /\ phase' = "config_error"
                     /\ UNCHANGED fields
                ELSE /\ phase' = "ready"
                     /\ model_specs' = parsed.models
                     /\ memory_methods' = Get(config.memory_methods, <<"truncation">>)
                     /\ benchmarks' = Get(config.executed_benchmarks, <<>>)
                     /\ concurrent_evaluations' = Get(config.concurrent_evaluations, 1)
    /\ UNCHANGED execution
    /\ UNCHANGED storage
    /\ UNCHANGED components

(***************************************************************************)
(* _run_single_evaluation up to the await of run_benchmark: the model, the *)
(* memory method and the benchmark adapter are created in this order.  A   *)
(* create call raises ValueError for a name that is not registered; the    *)
(* constructor it calls may raise as well (fault).                         *)
(***************************************************************************)
InstantiationFaults == {"none", "model", "memory", "benchmark"}

\* creation without the lookup in the benchmark registry
InstantiateUnchecked(combination, fault) ==
    IF combination.model.provider \notin DOMAIN providers_registry
    THEN [raised |-> "model", error_type |-> "ValueError"]
    ELSE IF fault = "model" THEN [raised |-> "model", error_type |-> "RuntimeError"]
    ELSE IF combination.memory_method \notin DOMAIN methods_registry
    THEN [raised |-> "memory", error_type |-> "ValueError"]
    ELSE IF fault = "memory" THEN [raised |-> "memory", error_type |-> "RuntimeError"]
    ELSE IF fault = "benchmark" THEN [raised |-> "benchmark", error_type |-> "RuntimeError"]
    ELSE [raised |-> "none", error_type |-> None]

Instantiate(combination, fault) ==
    IF combination.model.provider \notin DOMAIN providers_registry
    THEN [raised |-> "model", error_type |-> "ValueError"]
    ELSE IF fault = "model" THEN [raised |-> "model", error_type |-> "RuntimeError"]
    ELSE IF combination.memory_method \notin DOMAIN methods_registry
    THEN [raised |-> "memory", error_type |-> "ValueError"]
    ELSE IF fault = "memory" THEN [raised |-> "memory", error_type |-> "RuntimeError"]
    ELSE IF combination.benchmark \notin DOMAIN benchmarks_registry
    THEN [raised |-> "benchmark", error_type |-> "ValueError"]
    ELSE IF fault = "benchmark" THEN [raised |-> "benchmark", error_type |-> "RuntimeError"]
    ELSE [raised |-> "none", error_type |-> None]

\* a lookup that enters a name it does not find, as a defaultdict does
LookedUpWithDefault(registry, name) ==
    IF name \in DOMAIN registry THEN registry ELSE Register(registry, name, "Default")

\* "name not in cls._dict" and "cls._dict[name]" read the dictionary
LookedUp(registry, name) == registry

\* the registries after the create calls made for a combination
Lookups(combination) ==
    /\ providers_registry' = LookedUp(providers_registry, combination.model.provider)
    /\ methods_registry' = LookedUp(methods_registry, combination.memory_method)
    /\ benchmarks_registry' = LookedUp(benchmarks_registry, combination.benchmark)

\* str(e): the message of the exception of a kind
MessageOf(error_type) ==
    IF error_type = "ValueError" THEN "not registered" ELSE "failed"

\* an error_context built from variables that all tasks share, so that it
\* names the combination that was started last
ErrorContextShared(combination, error_type) ==
    [model |-> combinations[Len(combinations)].model.name,
     provider |-> DictGet(combinations[Len(combinations)].model, "provider", "unknown"),
     memory_method |-> combinations[Len(combinations)].memory_method,
     benchmark |-> combinations[Len(combinations)].benchmark,
     error_type |-> error_type, error_message |-> MessageOf(error_type)]

\* the error_context the except clause builds
ErrorContext(combination, error_type) ==
    [model |-> combination.model.name,
     provider |-> DictGet(combination.model, "provider", "unknown"),
     memory_method |-> combination.memory_method, benchmark |-> combination.benchmark,
     error_type |-> error_type, error_message |-> MessageOf(error_type)]

\* the dictionary _run_single_evaluation returns
SuccessResult(combination) ==
    [timestamp |-> now, duration_seconds |-> "1.5", model |-> combination.model,
     memory_method |-> combination.memory_method, benchmark |-> combination.benchmark,
     results |-> Metrics, status |-> "success"]

\* an error result that is labelled as a success
CreateErrorResultAsSuccess(combination, error_type) ==
    [timestamp |-> now, model |-> combination.model,
     memory_method |-> combination.memory_method, benchmark |-> combination.benchmark,
     error |-> ErrorContext(combination, error_type), status |-> "success"]

_create_error_result(combination, error_type) ==
    [timestamp |-> now, model |-> combination.model,
     memory_method |-> combination.memory_method, benchmark |-> combination.benchmark,
     error |-> ErrorContext(combination, error_type), status |-> "error"]

(***************************************************************************)
(* _generate_summary.  success_rate is the fraction <<numerator,           *)
(* denominator>>; it is 0 for an empty list.                               *)
(***************************************************************************)
CountStatus(rs, status) ==
    Cardinality({i \in DOMAIN rs : DictGet(rs[i], "status", None) = status})

\* the summary without the guard for an empty list: the division by zero is
\* written <<0, 0>>
GenerateSummaryUnguarded(rs) ==
    [total_runs |-> Len(rs),
     successful_runs |-> CountStatus(rs, "success"),
     failed_runs |-> CountStatus(rs, "error"),
     success_rate |-> <<CountStatus(rs, "success"), Len(rs)>>,
     results |-> rs,
     models_tested |-> {rs[i].model.name : i \in DOMAIN rs},
     memory_methods_tested |-> {rs[i].memory_method : i \in DOMAIN rs},
     benchmarks_tested |-> {rs[i].benchmark : i \in DOMAIN rs}]

_generate_summary(rs) ==
    [total_runs |-> Len(rs),
     successful_runs |-> CountStatus(rs, "success"),
     failed_runs |-> CountStatus(rs, "error"),
     success_rate |-> IF Len(rs) > 0 THEN <<CountStatus(rs, "success"), Len(rs)>>
                      ELSE <<0, 1>>,
     results |-> rs,
     models_tested |-> {rs[i].model.name : i \in DOMAIN rs},
     memory_methods_tested |-> {rs[i].memory_method : i \in DOMAIN rs},
     benchmarks_tested |-> {rs[i].benchmark : i \in DOMAIN rs}]

Last(s) == s[Len(s)]

\* the state a combination is in
StateOf(k) == Last(lifecycle[k])

(***************************************************************************)
(* run_full_evaluation up to its branch on concurrent_evaluations.         *)
(***************************************************************************)
RunStart ==
    /\ phase = "ready"
    /\ LET plan == Product(model_specs, memory_methods, benchmarks) IN
        /\ combinations' = plan
        /\ lifecycle' = [k \in DOMAIN plan |-> <<"pending">>]
        /\ task' = [k \in DOMAIN plan |-> "none"]
        /\ produced' = [k \in DOMAIN plan |-> NoResult]
        /\ raised_at' = [k \in DOMAIN plan |-> "none"]
        /\ invocations' = [k \in DOMAIN plan |-> 0]
    /\ IF concurrent_evaluations = 1
       THEN /\ phase' = "sequential"
            /\ index' = 1
            /\ UNCHANGED semaphore
       ELSE /\ phase' = "gathering"
            /\ semaphore' = concurrent_evaluations
            /\ UNCHANGED index
    /\ UNCHANGED <<given, registries, fields, results, summary, db, save_log>>
    /\ UNCHANGED storage
    /\ UNCHANGED components

(***************************************************************************)
(* The end of one combination: its result dictionary exists and            *)
(* save_result is called with it.                                          *)
(***************************************************************************)
\* a failed combination is put back to pending
CompleteRequeued(k, states, result, step, saved) ==
    /\ lifecycle' = [lifecycle EXCEPT ![k] =
                        IF result.status = "error" THEN @ \o states \o <<"pending">>
                        ELSE @ \o states]
    /\ produced' = [produced EXCEPT ![k] = result]
    /\ raised_at' = [raised_at EXCEPT ![k] = step]
    /\ db' = saved.db
    /\ save_log' = Append(save_log, [k |-> k, raised |-> saved.raised])

Complete(k, states, result, step, saved) ==
    /\ lifecycle' = [lifecycle EXCEPT ![k] = @ \o states]
    /\ produced' = [produced EXCEPT ![k] = result]
    /\ raised_at' = [raised_at EXCEPT ![k] = step]
    /\ db' = saved.db
    /\ save_log' = Append(save_log, [k |-> k, raised |-> saved.raised])

(***************************************************************************)
(* Sequential branch.  The loop body for combination index, split at the   *)
(* await of run_benchmark; the exception of save_result leaves the loop.   *)
(***************************************************************************)
\* the loop body without the failure boundary: an error leaves the loop
SeqCompleteUnguarded(states, result, step) ==
    \E save_fault \in FaultsFor(result) :
        LET saved == save_result(db, result, save_fault) IN
        /\ Complete(index, states, result, step, saved)
        /\ results' = Append(results, result)
        /\ IF saved.raised \/ result.status = "error"
           THEN phase' = "raised" /\ index' = index
           ELSE phase' = phase /\ index' = index + 1

\* the loop body without the intermediate save
SeqCompleteUnsaved(states, result, step) ==
    /\ lifecycle' = [lifecycle EXCEPT ![index] = @ \o states]
    /\ produced' = [produced EXCEPT ![index] = result]
    /\ raised_at' = [raised_at EXCEPT ![index] = step]
    /\ results' = Append(results, result)
    /\ index' = index + 1
    /\ UNCHANGED <<phase, db, save_log>>

\* the loop body with a save whose exception is caught: the loop goes on
SeqCompleteSaveCaught(states, result, step) ==
    \E save_fault \in FaultsFor(result) :
        LET saved == save_result(db, result, save_fault) IN
        /\ Complete(index, states, result, step, saved)
        /\ results' = Append(results, result)
        /\ phase' = phase /\ index' = index + 1

SeqComplete(states, result, step) ==
    \E save_fault \in FaultsFor(result) :
        LET saved == save_result(db, result, save_fault) IN
        /\ Complete(index, states, result, step, saved)
        /\ results' = Append(results, result)
        /\ IF saved.raised
           THEN phase' = "raised" /\ index' = index
           ELSE phase' = phase /\ index' = index + 1

SeqStart ==
    /\ phase = "sequential"
    /\ index \in DOMAIN combinations
    /\ StateOf(index) = "pending"
    /\ \E fault \in InstantiationFaults :
        LET created == Instantiate(combinations[index], fault) IN
        IF created.raised = "none"
        THEN /\ lifecycle' = [lifecycle EXCEPT ![index] = Append(@, "running")]
             /\ invocations' = [invocations EXCEPT ![index] = @ + 1]
             /\ UNCHANGED <<phase, index, produced, raised_at, db, save_log, results>>
        ELSE /\ SeqComplete(<<"running", "error">>,
                             _create_error_result(combinations[index], created.error_type),
                             created.raised)
             /\ UNCHANGED invocations
    /\ Lookups(combinations[index])
    /\ UNCHANGED <<given, fields, combinations, semaphore, task, summary>>
    /\ UNCHANGED storage
    /\ UNCHANGED components

SeqFinish ==
    /\ phase = "sequential"
    /\ index \in DOMAIN combinations
    /\ StateOf(index) = "running"
    /\ \/ SeqComplete(<<"success">>, SuccessResult(combinations[index]), "none")
       \/ SeqComplete(<<"error">>,
                      _create_error_result(combinations[index], "RuntimeError"), "run")
    /\ UNCHANGED <<given, registries, fields, combinations, semaphore, task, summary,
                   invocations>>
    /\ UNCHANGED storage
    /\ UNCHANGED components

SeqReturn ==
    /\ phase = "sequential"
    /\ index > Len(combinations)
    /\ summary' = _generate_summary(results)
    /\ phase' = "returned"
    /\ UNCHANGED <<given, registries, fields, combinations, index, semaphore, lifecycle,
                   task, produced, results, db, save_log, raised_at, invocations>>
    /\ UNCHANGED storage
    /\ UNCHANGED components

(***************************************************************************)
(* Concurrent branch.  One task per combination runs run_with_semaphore;   *)
(* a task that was started runs on when gather has already raised.         *)
(***************************************************************************)
TasksAlive == concurrent_evaluations # 1 /\ phase \in {"gathering", "raised"}

\* the task body without the save
TaskCompleteUnsaved(k, states, result, step, release) ==
    /\ lifecycle' = [lifecycle EXCEPT ![k] = @ \o states]
    /\ produced' = [produced EXCEPT ![k] = result]
    /\ raised_at' = [raised_at EXCEPT ![k] = step]
    /\ task' = [task EXCEPT ![k] = "returned"]
    /\ semaphore' = semaphore + release
    /\ UNCHANGED <<db, save_log>>

\* a task body that saves the results of successful combinations only
TaskCompleteErrorsUnsaved(k, states, result, step, release) ==
    \E save_fault \in FaultsFor(result) :
        LET saved == IF result.status = "error"
                     THEN [db |-> db, raised |-> FALSE, id |-> 0]
                     ELSE save_result(db, result, save_fault) IN
        /\ Complete(k, states, result, step, saved)
        /\ task' = [task EXCEPT ![k] = IF saved.raised THEN "raised" ELSE "returned"]
        /\ semaphore' = semaphore + release

TaskComplete(k, states, result, step, release) ==
    \E save_fault \in FaultsFor(result) :
        LET saved == save_result(db, result, save_fault) IN
        /\ Complete(k, states, result, step, saved)
        /\ task' = [task EXCEPT ![k] = IF saved.raised THEN "raised" ELSE "returned"]
        /\ semaphore' = semaphore + release

\* a gate that lets every task through
AcquirableAlways == TRUE

\* a gate that still lets a task through when no permit is left
AcquirableAtZero == semaphore >= 0

\* Semaphore.acquire goes through without waiting while the value is positive
Acquirable == semaphore > 0

\* the task passes the semaphore and runs to the await of run_benchmark
Admitted(k) ==
    /\ TasksAlive
    /\ StateOf(k) = "pending"
    /\ Acquirable
    /\ \E fault \in InstantiationFaults :
        LET created == Instantiate(combinations[k], fault) IN
        IF created.raised = "none"
        THEN /\ lifecycle' = [lifecycle EXCEPT ![k] = Append(@, "running")]
             /\ invocations' = [invocations EXCEPT ![k] = @ + 1]
             /\ semaphore' = semaphore - 1
             /\ UNCHANGED <<task, produced, raised_at, db, save_log>>
        ELSE /\ TaskComplete(k, <<"running", "error">>,
                              _create_error_result(combinations[k], created.error_type),
                              created.raised, 0)
             /\ UNCHANGED invocations
    /\ Lookups(combinations[k])
    /\ UNCHANGED <<given, phase, fields, combinations, index, results, summary>>
    /\ UNCHANGED storage

Admit(k) ==
    /\ Admitted(k)
    /\ UNCHANGED components

\* run_benchmark returns or raises; the result is saved, the semaphore released
Finished(k) ==
    /\ TasksAlive
    /\ StateOf(k) = "running"
    /\ \/ TaskComplete(k, <<"success">>, SuccessResult(combinations[k]), "none", 1)
       \/ TaskComplete(k, <<"error">>,
                       _create_error_result(combinations[k], "RuntimeError"), "run", 1)
    /\ UNCHANGED <<given, phase, registries, fields, combinations, index, results, summary,
                   invocations>>
    /\ UNCHANGED storage

Finish(k) ==
    /\ Finished(k)
    /\ UNCHANGED components

\* a gather that hands the results back in the order of completion
GatherReturnAsCompleted ==
    /\ phase = "gathering"
    /\ \A k \in DOMAIN combinations : task[k] = "returned"
    /\ results' = [i \in DOMAIN save_log |-> produced[save_log[i].k]]
    /\ summary' = _generate_summary(results')
    /\ phase' = "returned"
    /\ UNCHANGED <<given, registries, fields, combinations, index, semaphore, lifecycle,
                   task, produced, db, save_log, raised_at, invocations>>
    /\ UNCHANGED storage
    /\ UNCHANGED components

\* gather hands the results of all tasks back, in task order
GatherReturn ==
    /\ phase = "gathering"
    /\ \A k \in DOMAIN combinations : task[k] = "returned"
    /\ results' = [k \in DOMAIN combinations |-> produced[k]]
    /\ summary' = _generate_summary(results')
    /\ phase' = "returned"
    /\ UNCHANGED <<given, registries, fields, combinations, index, semaphore, lifecycle,
                   task, produced, db, save_log, raised_at, invocations>>
    /\ UNCHANGED storage
    /\ UNCHANGED components

\* gather propagates the exception of a task
GatherRaise ==
    /\ phase = "gathering"
    /\ \E k \in DOMAIN combinations : task[k] = "raised"
    /\ phase' = "raised"
    /\ UNCHANGED <<given, registries, fields, execution>>
    /\ UNCHANGED storage
    /\ UNCHANGED components

Next ==
    \/ Construct(SmallConfigs)
    \/ RunStart
    \/ SeqStart
    \/ SeqFinish
    \/ SeqReturn
    \/ \E k \in DOMAIN combinations : Admit(k)
    \/ \E k \in DOMAIN combinations : Finish(k)
    \/ GatherReturn
    \/ GatherRaise

Spec == Init /\ [][Next]_vars

\* the steps the event loop takes once run_full_evaluation has been called
Execute ==
    \/ SeqStart
    \/ SeqFinish
    \/ SeqReturn
    \/ \E k \in DOMAIN combinations : Admit(k)
    \/ \E k \in DOMAIN combinations : Finish(k)
    \/ GatherReturn
    \/ GatherRaise

\* the event loop keeps running what can run, and every run_benchmark call
\* that was started returns or raises
FairSpec == Spec /\ WF_vars(Execute)

\* construction and plan building alone, for configurations of every size
PlanNext ==
    \/ Construct(Configs(Catalogs))
    \/ RunStart

PlanSpec == Init /\ [][PlanNext]_vars

(***************************************************************************)
(* Direct calls on a ResultsStorage, one after the other, by a caller that *)
(* holds one instance.  The results handed to save_result are those the    *)
(* orchestrator builds, the same with other payloads, and dictionaries     *)
(* whose model entry is missing or malformed.                              *)
(***************************************************************************)
StoreCombinations ==
    {[model |-> [name |-> "m1", provider |-> "ollama"],
      memory_method |-> "truncation", benchmark |-> "nestful"],
     [model |-> [name |-> "m2", provider |-> "ollama"],
      memory_method |-> "truncation", benchmark |-> "nestful"],
     [model |-> [name |-> "m1", provider |-> "ollama"],
      memory_method |-> "summary", benchmark |-> "nestful"]}

FirstCombination ==
    [model |-> [name |-> "m1", provider |-> "ollama"],
     memory_method |-> "truncation", benchmark |-> "nestful"]

OrchestratorResults ==
    {SuccessResult(c) : c \in StoreCombinations}
        \cup {_create_error_result(FirstCombination, "RuntimeError")}

OtherPayloads ==
    {PyTuple(<<1, 2>>), PyDict({[key |-> PyInt("1"), val |-> 1]}), PySet(<<1>>)}

PayloadResults ==
    {[SuccessResult(FirstCombination) EXCEPT !.results = p] : p \in OtherPayloads}

\* no model entry; a mapping without name; one without provider; not a mapping
MalformedModels == {<<>>, [provider |-> "ollama"], [name |-> "m1"], [repr |-> "m1"]}

MalformedResults ==
    {[timestamp |-> now, duration_seconds |-> "1.5", memory_method |-> "truncation",
      benchmark |-> "nestful", results |-> Metrics, status |-> "success"]}
        \cup {[SuccessResult(FirstCombination) EXCEPT !.model = m] :
                 m \in MalformedModels \ {<<>>}}

StoreInputs == OrchestratorResults \cup PayloadResults \cup MalformedResults

QueryFilters ==
    [model_name : {None, "", "m1"}, model_provider : {None, "ollama"},
     memory_method : {None, "summary"}, benchmark : {None, "nestful"},
     status : {None, "success"}]

NoFilters == [name \in FilterNames |-> None]

\* the filters used where the store is exercised as a whole
ProbeFilters == {NoFilters, [NoFilters EXCEPT !.status = "success"]}

Limits == {Missing(0), Present(0), Present(1), Present(2)}

orchestrator == <<given, phase, registries, fields, combinations, index, semaphore,
                  lifecycle, task, produced, results, summary, save_log, raised_at,
                  invocations, components>>

Tick ==
    /\ last = NoCall
    /\ now < MaxClock
    /\ now' = now + 1
    /\ UNCHANGED <<orchestrator, db, last, issued, open>>

Save(inputs) ==
    /\ last = NoCall
    /\ db.seq < MaxRuns
    /\ \E result \in inputs : \E fault \in FaultsFor(result) :
        LET saved == save_result(db, result, fault) IN
        /\ db' = saved.db
        /\ last' = [op |-> "save_result", result |-> result, fault |-> fault,
                    raised |-> saved.raised, id |-> saved.id]
        /\ issued' = IF saved.raised THEN issued
                      ELSE Append(issued, [id |-> saved.id, result |-> result])
    /\ UNCHANGED <<orchestrator, now, open>>

GetResult ==
    /\ last = NoCall
    /\ \E id \in 1..MaxRuns :
        last' = [op |-> "get_result", id |-> id, returned |-> get_result(db, id)]
    /\ UNCHANGED <<orchestrator, db, now, issued, open>>

QueryResults(filtersets, limits) ==
    /\ last = NoCall
    /\ \E filters \in filtersets : \E limit \in limits :
       \E runs \in query_results(db, filters, limit) :
        last' = [op |-> "query_results", filters |-> filters, limit |-> limit,
                 returned |-> runs]
    /\ UNCHANGED <<orchestrator, db, now, issued, open>>

\* export_to_json writes what query_results returns to the file
ExportToJson(filtersets) ==
    /\ last = NoCall
    /\ \E filters \in filtersets : \E runs \in query_results(db, filters, Missing(0)) :
        last' = [op |-> "export_to_json", filters |-> filters, written |-> runs]
    /\ UNCHANGED <<orchestrator, db, now, issued, open>>

GetSummary ==
    /\ last = NoCall
    /\ last' = [op |-> "get_summary", returned |-> get_summary(db)]
    /\ UNCHANGED <<orchestrator, db, now, issued, open>>

DeleteResult ==
    /\ last = NoCall
    /\ \E id \in 1..MaxRuns :
        /\ db' = delete_result(db, id).db
        /\ last' = [op |-> "delete_result", id |-> id,
                    returned |-> delete_result(db, id).deleted]
    /\ UNCHANGED <<orchestrator, now, issued, open>>

ClearAllResults ==
    /\ last = NoCall
    /\ db' = clear_all_results(db)
    /\ last' = [op |-> "clear_all_results"]
    /\ UNCHANGED <<orchestrator, now, issued, open>>

\* another ResultsStorage is constructed on the same directory
OpenStorage ==
    /\ last = NoCall
    /\ db' = _initialize_database(db)
    /\ last' = [op |-> "__init__"]
    /\ UNCHANGED <<orchestrator, now, issued, open>>

\* The caller summarises the results it has saved, as run_full_evaluation
\* does; _generate_summary reads r["model"]["name"] of every result and
\* raises when a result has none.
Saved == [i \in DOMAIN issued |-> issued[i].result]

GenerateSummary ==
    /\ last = NoCall
    /\ \A i \in DOMAIN Saved :
        /\ "model" \in DOMAIN Saved[i]
        /\ IsMapping(Saved[i].model)
        /\ "name" \in DOMAIN Saved[i].model
    /\ last' = [op |-> "_generate_summary", results |-> Saved,
                returned |-> _generate_summary(Saved)]
    /\ UNCHANGED <<orchestrator, db, now, issued, open>>

\* the caller takes what the call returned
Return ==
    /\ last # NoCall
    /\ last' = NoCall
    /\ UNCHANGED <<orchestrator, db, now, issued, open>>

StoreNext ==
    \/ Return
    \/ Save(StoreInputs)
    \/ GetResult
    \/ QueryResults(ProbeFilters, {Missing(0)})
    \/ ExportToJson(ProbeFilters)
    \/ GetSummary
    \/ DeleteResult
    \/ ClearAllResults
    \/ OpenStorage
    \/ GenerateSummary

StoreSpec == Init /\ [][StoreNext]_vars

\* saving and querying while the clock runs
QueryNext ==
    \/ Tick
    \/ Return
    \/ Save(OrchestratorResults)
    \/ QueryResults(QueryFilters, Limits)

QuerySpec == Init /\ [][QueryNext]_vars

(***************************************************************************)
(* Several ResultsStorage instances on one results directory.  They share  *)
(* the file results_dir / "evaluation_results.db", hence db.  A call of    *)
(* save_result is three steps: it connects and prepares the row, it        *)
(* executes the INSERT, which takes the write lock of the file and puts    *)
(* the row in the transaction of the connection, and it commits.  While    *)
(* one connection holds the write lock, the INSERT of another waits; when  *)
(* the wait times out sqlite3 raises "database is locked" and save_result  *)
(* rolls back and raises.  Readers see the committed rows only.            *)
(***************************************************************************)
\* an INSERT that does not look at the lock
WriteLockIgnored(i) == TRUE

WriteLockFree(i) == \A j \in Instances \ {i} : open[j].state # "inserted"

SaveConnect(i) ==
    /\ open[i] = NoTx
    /\ db.seq < MaxRuns
    /\ \E result \in OrchestratorResults :
        open' = [open EXCEPT ![i] = [state |-> "connected", result |-> result]]
    /\ UNCHANGED <<orchestrator, db, now, last, issued>>

SaveInsert(i) ==
    /\ open[i].state = "connected"
    /\ db.seq < MaxRuns
    /\ WriteLockFree(i)
    /\ open' = [open EXCEPT ![i] = [state |-> "inserted", result |-> open[i].result,
                                    tx |-> Insert(db, open[i].result)]]
    /\ UNCHANGED <<orchestrator, db, now, last, issued>>

SaveLocked(i) ==
    /\ open[i].state = "connected"
    /\ ~WriteLockFree(i)
    /\ open' = [open EXCEPT ![i] = NoTx]
    /\ last' = [op |-> "save_result", instance |-> i, result |-> open[i].result,
                fault |-> "insert", raised |-> TRUE, id |-> 0]
    /\ UNCHANGED <<orchestrator, db, now, issued>>

SaveCommit(i) ==
    /\ open[i].state = "inserted"
    /\ db' = Commit(db, open[i].tx)
    /\ open' = [open EXCEPT ![i] = NoTx]
    /\ issued' = Append(issued, [id |-> open[i].tx.seq, result |-> open[i].result,
                                 instance |-> i])
    /\ last' = [op |-> "save_result", instance |-> i, result |-> open[i].result,
                fault |-> "none", raised |-> FALSE, id |-> open[i].tx.seq]
    /\ UNCHANGED <<orchestrator, now>>

SaveRollback(i) ==
    /\ open[i].state = "inserted"
    /\ db' = Rollback(db, open[i].tx)
    /\ open' = [open EXCEPT ![i] = NoTx]
    /\ last' = [op |-> "save_result", instance |-> i, result |-> open[i].result,
                fault |-> "commit", raised |-> TRUE, id |-> 0]
    /\ UNCHANGED <<orchestrator, now, issued>>

SharedGetResult(i) ==
    /\ open[i] = NoTx
    /\ \E id \in 1..MaxRuns :
        last' = [op |-> "get_result", instance |-> i, id |-> id,
                 returned |-> get_result(db, id)]
    /\ UNCHANGED <<orchestrator, db, now, issued, open>>

SharedNext ==
    \E i \in Instances :
        \/ SaveConnect(i)
        \/ SaveInsert(i)
        \/ SaveLocked(i)
        \/ SaveCommit(i)
        \/ SaveRollback(i)
        \/ SharedGetResult(i)

SharedSpec == Init /\ [][SharedNext]_vars

(***************************************************************************)
(* The three registries used directly: ModelRegistry ("models"),           *)
(* MemoryRegistry ("memory") and the BenchmarkRegistry of the orchestrator *)
(* module ("benchmarks").  Each is a class-level dictionary from a name to *)
(* a class; register stores the class under the name, create looks the     *)
(* name up and calls the class, list_available is list(keys()).            *)
(***************************************************************************)
RegistryKinds == {"models", "memory", "benchmarks"}

NamesOf(kind) ==
    CASE kind = "models" -> {"ollama", "custom"}
      [] kind = "memory" -> {"truncation", "summary"}
      [] OTHER -> {"nestful", "other"}

\* classes a caller registers: test doubles and plugins
CustomClasses == {"CustomA", "CustomB"}

RegistryOf(kind) ==
    CASE kind = "models" -> providers_registry
      [] kind = "memory" -> methods_registry
      [] OTHER -> benchmarks_registry

InitialRegistry(kind) ==
    CASE kind = "models" -> InitialProviders
      [] kind = "memory" -> InitialMethods
      [] OTHER -> InitialBenchmarks

SetRegistry(kind, registry) ==
    /\ providers_registry' = IF kind = "models" THEN registry ELSE providers_registry
    /\ methods_registry' = IF kind = "memory" THEN registry ELSE methods_registry
    /\ benchmarks_registry' = IF kind = "benchmarks" THEN registry ELSE benchmarks_registry

\* The argument of a create call: the model_name of create_model, the optional
\* max_tokens of create_method, the benchmark_config of create_benchmark.
ArgsOf(kind) ==
    CASE kind = "models" -> {Present("m1"), Present("m2")}
      [] kind = "memory" -> {Missing("-"), Present("1")}
      [] OTHER -> {Present("cfg")}

\* cls(**kwargs): the object the constructor makes.  A model keeps its
\* model_name, a memory method its max_tokens (500 when not given), a
\* benchmark adapter its configuration.
New(kind, cls, arg) ==
    CASE kind = "models" -> [cls |-> cls, model_name |-> arg.val]
      [] kind = "memory" -> [cls |-> cls, max_tokens |-> Get(arg, "500")]
      [] OTHER -> [cls |-> cls, cfg |-> arg.val]

\* the ValueError of a create call; only create_model lists the known names
NotRegistered(kind, registry) ==
    [type |-> "ValueError",
     available |-> IF kind = "models" THEN Present(DOMAIN registry) ELSE Missing({})]

NoError == [type |-> None, available |-> Missing({})]

\* an allocation that hands out an equal object made earlier
AllocateShared(objects, object) ==
    IF \E a \in DOMAIN objects : objects[a] = object
    THEN [heap |-> objects,
          address |-> CHOOSE a \in DOMAIN objects : objects[a] = object]
    ELSE [heap |-> Append(objects, object), address |-> Len(objects) + 1]

\* calling a class makes a new object
Allocate(objects, object) ==
    [heap |-> Append(objects, object), address |-> Len(objects) + 1]

\* dict.setdefault(name, cls)
RegisterIfAbsent(registry, name, cls) ==
    IF name \in DOMAIN registry THEN registry ELSE Register(registry, name, cls)

register(registry, name, cls) == Register(registry, name, cls)

create(kind, registry, objects, name, arg) ==
    IF name \notin DOMAIN registry
    THEN [raised |-> TRUE, error |-> NotRegistered(kind, registry), heap |-> objects,
          address |-> 0]
    ELSE LET made == Allocate(objects, New(kind, registry[name], arg)) IN
         [raised |-> FALSE, error |-> NoError, heap |-> made.heap,
          address |-> made.address]

list_available(registry) == DOMAIN registry

batch == <<given, phase, fields, execution>>

RegisterIn(kind) ==
    /\ last = NoCall
    /\ Len(reglog) < MaxRegistrations
    /\ \E name \in NamesOf(kind) : \E cls \in CustomClasses :
        /\ SetRegistry(kind, register(RegistryOf(kind), name, cls))
        /\ reglog' = Append(reglog, [registry |-> kind, name |-> name, cls |-> cls])
        /\ last' = [op |-> "register", registry |-> kind, name |-> name, cls |-> cls]
    /\ UNCHANGED <<batch, now, issued, open, heap, benchmark_run, timer, mcp_run,
                   component_benchmarks,
                   providers_config>>

CreateFrom(kind) ==
    /\ last = NoCall
    /\ Len(heap) < MaxObjects
    /\ \E name \in NamesOf(kind) : \E arg \in ArgsOf(kind) :
        LET created == create(kind, RegistryOf(kind), heap, name, arg) IN
        /\ heap' = created.heap
        /\ last' = [op |-> "create", registry |-> kind, name |-> name, arg |-> arg,
                    raised |-> created.raised, error |-> created.error,
                    address |-> created.address]
    /\ UNCHANGED <<batch, registries, now, issued, open, reglog, benchmark_run, timer, mcp_run,
                   component_benchmarks,
                   providers_config>>

ListAvailable(kind) ==
    /\ last = NoCall
    /\ last' = [op |-> "list_available", registry |-> kind,
                returned |-> list_available(RegistryOf(kind))]
    /\ UNCHANGED <<batch, registries, now, issued, open, components>>

\* the caller changes the state of an object it was given
Changed(object) ==
    IF "model_name" \in DOMAIN object THEN [object EXCEPT !.model_name = "changed"]
    ELSE IF "max_tokens" \in DOMAIN object THEN [object EXCEPT !.max_tokens = "changed"]
    ELSE [object EXCEPT !.cfg = "changed"]

SetAttribute(address) ==
    /\ last = NoCall
    /\ heap[address] # Changed(heap[address])
    /\ heap' = [heap EXCEPT ![address] = Changed(@)]
    /\ last' = [op |-> "setattr", address |-> address]
    /\ UNCHANGED <<batch, registries, now, issued, open, reglog, benchmark_run, timer, mcp_run,
                   component_benchmarks,
                   providers_config>>

RegistryNext ==
    \/ Return
    \/ \E kind \in RegistryKinds : RegisterIn(kind)
    \/ \E kind \in RegistryKinds : CreateFrom(kind)
    \/ \E kind \in RegistryKinds : ListAvailable(kind)
    \/ \E address \in DOMAIN heap : SetAttribute(address)

RegistrySpec == Init /\ [][RegistryNext]_vars

(***************************************************************************)
(* The registries module.  It defines a BenchmarkRegistry class of its own *)
(* with its own _benchmarks dictionary; ComponentRegistry.register_        *)
(* benchmark and ComponentRegistry.create_benchmark go to that class.  The *)
(* orchestrator creates its adapters from the BenchmarkRegistry of the     *)
(* orchestrator module ("benchmarks").                                     *)
(***************************************************************************)
ComponentRegisterBenchmark ==
    /\ last = NoCall
    /\ Len(reglog) < MaxRegistrations
    /\ \E name \in NamesOf("benchmarks") : \E cls \in CustomClasses :
        /\ component_benchmarks' = register(component_benchmarks, name, cls)
        /\ reglog' = Append(reglog, [registry |-> "components", name |-> name,
                                     cls |-> cls])
        /\ last' = [op |-> "register", registry |-> "components", name |-> name,
                    cls |-> cls]
    /\ UNCHANGED <<batch, registries, now, issued, open, heap, benchmark_run, timer,
                   mcp_run, providers_config>>

ComponentCreateBenchmark ==
    /\ last = NoCall
    /\ Len(heap) < MaxObjects
    /\ \E name \in NamesOf("benchmarks") : \E arg \in ArgsOf("benchmarks") :
        LET created == create("benchmarks", component_benchmarks, heap, name, arg) IN
        /\ heap' = created.heap
        /\ last' = [op |-> "create", registry |-> "components", name |-> name,
                    arg |-> arg, raised |-> created.raised, error |-> created.error,
                    address |-> created.address]
    /\ UNCHANGED <<batch, registries, now, issued, open, reglog, benchmark_run, timer,
                   mcp_run, component_benchmarks,
                   providers_config>>

\* _run_single_evaluation creates the adapter of a combination
OrchestratorCreateBenchmark == CreateFrom("benchmarks")

OrchestratorRegisterBenchmark == RegisterIn("benchmarks")

ComponentNext ==
    \/ Return
    \/ ComponentRegisterBenchmark
    \/ ComponentCreateBenchmark
    \/ OrchestratorRegisterBenchmark
    \/ OrchestratorCreateBenchmark

ComponentSpec == Init /\ [][ComponentNext]_vars

(***************************************************************************)
(* TruncationMemory.process.  A text is a sequence of characters; "a" and  *)
(* "b" stand for the characters that are not whitespace.  str.split()      *)
(* cuts the text at every run of whitespace and drops empty pieces,        *)
(* " ".join puts one space between the tokens.                             *)
(***************************************************************************)
Whitespace == {" ", "\n"}
Characters == {"a", "b"} \cup Whitespace
Texts == BSeq(Characters, MaxText)

RECURSIVE SplitFrom(_, _, _)
SplitFrom(text, current, tokens) ==
    IF text = <<>>
    THEN IF current = <<>> THEN tokens ELSE Append(tokens, current)
    ELSE IF Head(text) \in Whitespace
         THEN SplitFrom(Tail(text), <<>>,
                        IF current = <<>> THEN tokens ELSE Append(tokens, current))
         ELSE SplitFrom(Tail(text), Append(current, Head(text)), tokens)

split(text) == SplitFrom(text, <<>>, <<>>)

RECURSIVE join(_)
join(tokens) ==
    IF tokens = <<>> THEN <<>>
    ELSE IF Len(tokens) = 1 THEN tokens[1]
    ELSE tokens[1] \o <<" ">> \o join(Tail(tokens))

\* tokens[:n] for n >= 0
Slice(tokens, n) == SubSeq(tokens, 1, IF n < Len(tokens) THEN n ELSE Len(tokens))

\* process with len(tokens) < max_tokens as the test
ProcessBelowBudget(self_max_tokens, text, kwargs) ==
    LET max_tokens == Get(kwargs, self_max_tokens)
        tokens == split(text)
    IN IF tokens = <<>> THEN <<>>
       ELSE IF Len(tokens) < max_tokens THEN text
       ELSE join(Slice(tokens, max_tokens))

process(self_max_tokens, text, kwargs) ==
    LET max_tokens == Get(kwargs, self_max_tokens)
        tokens == split(text)
    IN IF tokens = <<>> THEN <<>>
       ELSE IF Len(tokens) <= max_tokens THEN text
       ELSE join(Slice(tokens, max_tokens))

Process ==
    /\ last = NoCall
    /\ \E text \in Texts : \E self_max_tokens \in 0..MaxTokens :
       \E kwargs \in {Missing(0)} \cup {Present(n) : n \in 0..MaxTokens} :
        last' = [op |-> "process", text |-> text, max_tokens |-> self_max_tokens,
                 kwargs |-> kwargs,
                 returned |-> process(self_max_tokens, text, kwargs)]
    /\ UNCHANGED <<orchestrator, db, now, issued, open>>

TruncationNext == Process \/ Return

TruncationSpec == Init /\ [][TruncationNext]_vars

(***************************************************************************)
(* One combination run on the nestful benchmark: _run_single_evaluation    *)
(* awaits NestfulAdapter.run_benchmark, which loads the data, asks the     *)
(* model for a text per sample and returns the texts.  The adapter catches *)
(* every exception of the generation of a sample and puts the empty text   *)
(* in its place; an exception of any other part of run_benchmark reaches   *)
(* the failure boundary of the orchestrator.                               *)
(***************************************************************************)
Contents == {"x", "y"}

\* the dictionary run_benchmark returns: the generated text of every sample
BenchmarkResults(response) == PyList(response)

RunBenchmarkStart ==
    /\ last = NoCall
    /\ benchmark_run = NoRunning
    /\ \E combination \in StoreCombinations : \E samples \in 1..MaxSamples :
        benchmark_run' = [state |-> "generating", combination |-> combination,
                          samples |-> samples, response |-> <<>>,
                          model_raised |-> FALSE]
    /\ UNCHANGED <<batch, registries, storage, heap, reglog, timer, mcp_run,
                   component_benchmarks,
                   providers_config>>

\* await self.model_instance.generate_text(...) for the next sample
Generate ==
    /\ benchmark_run.state = "generating"
    /\ Len(benchmark_run.response) < benchmark_run.samples
    /\ \/ \E content \in Contents :
            benchmark_run' = [benchmark_run EXCEPT !.response = Append(@, content)]
       \/ benchmark_run' = [benchmark_run EXCEPT !.response = Append(@, ""),
                                                 !.model_raised = TRUE]
    /\ UNCHANGED <<batch, registries, storage, heap, reglog, timer, mcp_run,
                   component_benchmarks,
                   providers_config>>

\* run_benchmark returns and _run_single_evaluation wraps its results
RunBenchmarkReturn ==
    /\ benchmark_run.state = "generating"
    /\ Len(benchmark_run.response) = benchmark_run.samples
    /\ last' = [op |-> "_run_single_evaluation_with_error_handling",
                model_raised |-> benchmark_run.model_raised,
                returned |-> [SuccessResult(benchmark_run.combination) EXCEPT
                                 !.results = BenchmarkResults(benchmark_run.response)]]
    /\ benchmark_run' = NoRunning
    /\ UNCHANGED <<batch, registries, now, issued, open, heap, reglog, timer, mcp_run,
                   component_benchmarks,
                   providers_config>>

\* run_benchmark raises outside the generation of a sample: reading the
\* data, preparing the prompts, writing the output file
RunBenchmarkRaise ==
    /\ benchmark_run.state = "generating"
    /\ Len(benchmark_run.response) \in {0, benchmark_run.samples}
    /\ last' = [op |-> "_run_single_evaluation_with_error_handling",
                model_raised |-> benchmark_run.model_raised,
                returned |-> _create_error_result(benchmark_run.combination,
                                                  "RuntimeError")]
    /\ benchmark_run' = NoRunning
    /\ UNCHANGED <<batch, registries, now, issued, open, heap, reglog, timer, mcp_run,
                   component_benchmarks,
                   providers_config>>

AdapterNext ==
    \/ RunBenchmarkStart
    \/ Generate
    \/ RunBenchmarkReturn
    \/ RunBenchmarkRaise
    \/ Return

AdapterSpec == Init /\ [][AdapterNext]_vars

(***************************************************************************)
(* The two ways a batch is started.  main of run_evaluation.py calls       *)
(* validate_config on the configuration and constructs the orchestrator    *)
(* when it raises nothing; a caller of the class constructs the            *)
(* orchestrator without it.  validate_config raises the first of: a        *)
(* required field is missing, a list is empty, there are no providers, a   *)
(* provider section is not a mapping (AttributeError of .get), no provider *)
(* has enabled models.  Its loop over the providers stops at the first     *)
(* provider that has enabled models.                                       *)
(***************************************************************************)
RECURSIVE HasEnabledModels(_)
HasEnabledModels(providers) ==
    IF providers = <<>> THEN [error |-> None, found |-> FALSE]
    ELSE IF ~Head(providers).isDict THEN [error |-> "AttributeError", found |-> FALSE]
    ELSE IF Head(providers).enabled_models # <<>> THEN [error |-> None, found |-> TRUE]
    ELSE HasEnabledModels(Tail(providers))

\* the validation without the test for empty lists
ValidateConfigFields(config) ==
    IF ~config.memory_methods.has \/ ~config.executed_benchmarks.has
    THEN "Configuration missing required fields"
    ELSE IF config.providers = <<>> THEN "No providers configured"
    ELSE IF HasEnabledModels(config.providers).error # None
         THEN HasEnabledModels(config.providers).error
    ELSE IF ~HasEnabledModels(config.providers).found
         THEN "No models enabled in any provider"
    ELSE None

validate_config(config) ==
    IF ~config.memory_methods.has \/ ~config.executed_benchmarks.has
    THEN "Configuration missing required fields"
    ELSE IF config.memory_methods.val = <<>> \/ config.executed_benchmarks.val = <<>>
         THEN "Configuration field cannot be empty"
    ELSE IF config.providers = <<>> THEN "No providers configured"
    ELSE IF HasEnabledModels(config.providers).error # None
         THEN HasEnabledModels(config.providers).error
    ELSE IF ~HasEnabledModels(config.providers).found
         THEN "No models enabled in any provider"
    ELSE None

\* main up to the call of run_evaluation
Validate(configs) ==
    /\ phase = "new"
    /\ last = NoCall
    /\ \E config \in configs :
        /\ last' = [op |-> "validate_config", config |-> config,
                    error |-> validate_config(config)]
        /\ phase' = IF validate_config(config) # None THEN "rejected" ELSE "new"
    /\ UNCHANGED <<given, registries, fields, execution, now, issued, open, components>>

ValidateConfig == Validate(SmallConfigs)

\* run_evaluation constructs the orchestrator for the validated configuration
ConstructValidated ==
    /\ last.op = "validate_config"
    /\ Construct({last.config})

\* the orchestrator is constructed by a caller of the class
ConstructDirectly ==
    /\ last = NoCall
    /\ Construct(SmallConfigs)

MainNext ==
    \/ ValidateConfig
    \/ ConstructValidated
    \/ ConstructDirectly
    \/ RunStart
    \/ SeqStart
    \/ \E k \in DOMAIN combinations : Admit(k)

MainSpec == Init /\ [][MainNext]_vars

\* main up to the plan, for sequential configurations of every size
SequentialConfigs ==
    {cfg \in Configs(Catalogs) : cfg.concurrent_evaluations = Present(1)}

ValidateSequential == Validate(SequentialConfigs)

OrderNext ==
    \/ ValidateSequential
    \/ ConstructValidated
    \/ RunStart

OrderSpec == Init /\ [][OrderNext]_vars

(***************************************************************************)
(* config_utils: enable_model and disable_model on the providers section   *)
(* of a configuration dictionary.  A provider section has a models list    *)
(* and may lack the enabled_models key; provider_config.get(               *)
(* "enabled_models", []) then yields a new list that belongs to no         *)
(* dictionary, so what is appended to it is lost.  list.remove takes out   *)
(* the first occurrence.                                                   *)
(***************************************************************************)
ConfiguredProviders == {"ollama", "openrouter"}

ProviderSections ==
    [models : Catalogs,
     enabled_models : {Present(l) : l \in BSeq(ModelNames, MaxLen)} \cup {Missing(<<>>)}]

ProvidersSections ==
    UNION {[names -> ProviderSections] : names \in SUBSET ConfiguredProviders}

\* list.remove(x)
Remove(list, x) ==
    LET first == CHOOSE i \in DOMAIN list :
                    list[i] = x /\ \A j \in DOMAIN list : list[j] = x => i <= j
    IN [i \in 1..(Len(list) - 1) |-> IF i < first THEN list[i] ELSE list[i + 1]]

enable_model(providers, provider, model) ==
    IF provider \notin DOMAIN providers THEN [returned |-> FALSE, providers |-> providers]
    ELSE IF model \notin Range(providers[provider].models)
    THEN [returned |-> FALSE, providers |-> providers]
    ELSE IF model \notin Range(Get(providers[provider].enabled_models, <<>>))
    THEN [returned |-> TRUE,
          providers |-> IF providers[provider].enabled_models.has
                        THEN [providers EXCEPT ![provider].enabled_models =
                                Present(Append(@.val, model))]
                        ELSE providers]
    ELSE [returned |-> FALSE, providers |-> providers]

\* disable_model that reports a removal whether or not it made one
DisableModelAlways(providers, provider, model) ==
    IF provider \notin DOMAIN providers THEN [returned |-> FALSE, providers |-> providers]
    ELSE IF model \in Range(Get(providers[provider].enabled_models, <<>>))
    THEN [returned |-> TRUE,
          providers |-> [providers EXCEPT ![provider].enabled_models =
                            Present(Remove(@.val, model))]]
    ELSE [returned |-> TRUE, providers |-> providers]

disable_model(providers, provider, model) ==
    IF provider \notin DOMAIN providers THEN [returned |-> FALSE, providers |-> providers]
    ELSE IF model \in Range(Get(providers[provider].enabled_models, <<>>))
    THEN [returned |-> TRUE,
          providers |-> [providers EXCEPT ![provider].enabled_models =
                            Present(Remove(@.val, model))]]
    ELSE [returned |-> FALSE, providers |-> providers]

RECURSIVE TotalEnabled(_, _)
TotalEnabled(providers, names) ==
    IF names = {} THEN 0
    ELSE LET name == CHOOSE n \in names : TRUE IN
         Len(Get(providers[name].enabled_models, <<>>))
             + TotalEnabled(providers, names \ {name})

get_total_enabled_models(providers) == TotalEnabled(providers, DOMAIN providers)

get_enabled_models_summary(providers) ==
    [name \in {n \in DOMAIN providers :
                    Get(providers[n].enabled_models, <<>>) # <<>>} |->
        Get(providers[name].enabled_models, <<>>)]

ConfigUnchanged ==
    UNCHANGED <<given, phase, registries, fields, execution, now, issued, open, heap,
                reglog, benchmark_run, timer, mcp_run, component_benchmarks>>

\* a configuration is loaded
LoadConfig ==
    /\ providers_config = NoConfig
    /\ last = NoCall
    /\ \E providers \in ProvidersSections :
        providers_config' = [state |-> "loaded", loaded |-> providers,
                             providers |-> providers]
    /\ UNCHANGED last
    /\ ConfigUnchanged

EnableModel ==
    /\ providers_config # NoConfig
    /\ last = NoCall
    /\ \E provider \in ProviderNames : \E model \in ModelNames :
        LET done == enable_model(providers_config.providers, provider, model) IN
        /\ providers_config' = [providers_config EXCEPT !.providers = done.providers]
        /\ last' = [op |-> "enable_model", provider |-> provider, model |-> model,
                    before |-> providers_config.providers, returned |-> done.returned]
    /\ ConfigUnchanged

DisableModel ==
    /\ providers_config # NoConfig
    /\ last = NoCall
    /\ \E provider \in ProviderNames : \E model \in ModelNames :
        LET done == disable_model(providers_config.providers, provider, model) IN
        /\ providers_config' = [providers_config EXCEPT !.providers = done.providers]
        /\ last' = [op |-> "disable_model", provider |-> provider, model |-> model,
                    before |-> providers_config.providers, returned |-> done.returned]
    /\ ConfigUnchanged

\* the caller takes what the call returned
ConfigReturn ==
    /\ last # NoCall
    /\ last' = NoCall
    /\ UNCHANGED providers_config
    /\ ConfigUnchanged

ConfigNext ==
    \/ LoadConfig
    \/ EnableModel
    \/ DisableModel
    \/ ConfigReturn

ConfigSpec == Init /\ [][ConfigNext]_vars

(***************************************************************************)
(* The concurrent branch with time.  The event loop runs one task at a     *)
(* time up to its next suspension and lets time pass only when no task is  *)
(* ready.  A run_benchmark call takes Duration.  Whether it suspends       *)
(* depends on the adapter: the only await in NestfulAdapter.run_benchmark  *)
(* is that of generate_text, and generate_text of both providers calls its *)
(* client synchronously (ollama.chat, client.chat.completions.create), so  *)
(* the call never gives the event loop back and the other tasks wait until *)
(* it has returned.  The runner of MCPBenchAdapter awaits its input and    *)
(* output.                                                                 *)
(***************************************************************************)
Duration == 2

Suspends(adapter) == adapter # "NestfulAdapter"

InRunBenchmark == {k \in DOMAIN combinations : StateOf(k) = "running"}

\* a task is inside a run_benchmark call that does not suspend
Blocked ==
    \E k \in InRunBenchmark : ~Suspends(benchmarks_registry[combinations[k].benchmark])

ConcurrentConfigs ==
    {cfg \in SmallConfigs : Get(cfg.concurrent_evaluations, 1) >= 2}

ConstructConcurrent == Construct(ConcurrentConfigs)

TimedAdmit(k) ==
    /\ ~Blocked
    /\ Admitted(k)
    /\ timer' = IF Last(lifecycle'[k]) = "running"
                THEN [timer EXCEPT !.deadline =
                        [j \in DOMAIN timer.deadline \cup {k} |->
                            IF j = k THEN timer.clock + Duration
                            ELSE timer.deadline[j]]]
                ELSE timer
    /\ UNCHANGED <<heap, reglog, benchmark_run, mcp_run, component_benchmarks,
                   providers_config>>

\* time passes while no task is ready to run, or while a task holds the loop
TimePasses ==
    /\ TasksAlive
    /\ InRunBenchmark # {}
    /\ \A k \in InRunBenchmark : timer.deadline[k] > timer.clock
    /\ \/ Blocked
       \/ ~(Acquirable /\ \E k \in DOMAIN combinations : StateOf(k) = "pending")
    /\ timer' = [timer EXCEPT !.clock = @ + 1]
    /\ UNCHANGED <<given, phase, registries, fields, execution, storage, heap, reglog,
                   benchmark_run, mcp_run, component_benchmarks,
                   providers_config>>

TimedFinish(k) ==
    /\ k \in InRunBenchmark
    /\ timer.deadline[k] <= timer.clock
    /\ Finished(k)
    /\ UNCHANGED components

TimedNext ==
    \/ ConstructConcurrent
    \/ RunStart
    \/ \E k \in DOMAIN combinations : TimedAdmit(k)
    \/ TimePasses
    \/ \E k \in DOMAIN combinations : TimedFinish(k)
    \/ GatherReturn
    \/ GatherRaise

TimedSpec == Init /\ [][TimedNext]_vars

(***************************************************************************)
(* MCPBenchAdapter.run_benchmark in a batch.  _run_single_evaluation hands *)
(* every mcpbench combination the same dictionary, the "mcpbench" block of *)
(* the configuration, and the adapter keeps it as self.cfg.  In demo mode  *)
(* run_benchmark reads task_limit into the local original_task_limit and   *)
(* writes 1; the finally clause that writes the local back belongs to the  *)
(* try statement around runner.run_benchmark only, so an exception of      *)
(* parse_arguments_from_config or of the creation of the runner leaves the *)
(* function without it.  The call suspends while the runner is created and *)
(* while the runner runs.  A task_limit that is None and one that is       *)
(* missing are both Missing(0): cfg.get("task_limit") is None for both.    *)
(***************************************************************************)
MaxMcpRuns == 2

McpRuns == 1..MaxMcpRuns

TaskLimits == {Missing(0), Present(1), Present(5)}

McpBlocks == [demo : BOOLEAN, task_limit : TaskLimits]

McpActive == {r \in McpRuns : mcp_run.runs[r].pc \in {"creating", "running"}}

McpUnchanged ==
    UNCHANGED <<given, phase, registries, fields, execution, storage, heap, reglog,
                benchmark_run, timer, component_benchmarks,
                   providers_config>>

\* the batch is set up: the configuration block and the concurrency bound
McpConfigure ==
    /\ mcp_run = NoBlock
    /\ \E block \in McpBlocks : \E bound \in 1..MaxConc :
        mcp_run' = [state |-> "batch", bound |-> bound, configured |-> block,
                    cfg |-> block,
                    runs |-> [r \in McpRuns |->
                                [pc |-> "pending", original_task_limit |-> Missing(0)]]]
    /\ McpUnchanged

\* a combination is admitted; run_benchmark runs up to the creation of the runner
McpRunBenchmarkEnter(r) ==
    /\ mcp_run # NoBlock
    /\ mcp_run.runs[r].pc = "pending"
    /\ \A q \in McpRuns : q < r => mcp_run.runs[q].pc # "pending"
    /\ Cardinality(McpActive) < mcp_run.bound
    /\ \E raised \in BOOLEAN :
        mcp_run' = [mcp_run EXCEPT
            !.cfg.task_limit = IF mcp_run.cfg.demo THEN Present(1) ELSE @,
            !.runs[r] = [pc |-> IF raised THEN "raised" ELSE "creating",
                         original_task_limit |->
                            IF mcp_run.cfg.demo THEN mcp_run.cfg.task_limit
                            ELSE Missing(0)]]
    /\ McpUnchanged

\* create_config_aware_runner_and_get_models returns or raises
McpRunnerCreated(r) ==
    /\ mcp_run # NoBlock
    /\ mcp_run.runs[r].pc = "creating"
    /\ \E raised \in BOOLEAN :
        mcp_run' = [mcp_run EXCEPT
            !.runs[r].pc = IF raised THEN "raised" ELSE "running"]
    /\ McpUnchanged

\* runner.run_benchmark returns or raises; the finally clause runs
McpRunBenchmarkEnd(r) ==
    /\ mcp_run # NoBlock
    /\ mcp_run.runs[r].pc = "running"
    /\ \E raised \in BOOLEAN :
        mcp_run' = [mcp_run EXCEPT
            !.cfg.task_limit = IF mcp_run.cfg.demo
                               THEN mcp_run.runs[r].original_task_limit ELSE @,
            !.runs[r].pc = IF raised THEN "raised" ELSE "returned"]
    /\ McpUnchanged

McpNext ==
    \/ McpConfigure
    \/ \E r \in McpRuns : McpRunBenchmarkEnter(r)
    \/ \E r \in McpRuns : McpRunnerCreated(r)
    \/ \E r \in McpRuns : McpRunBenchmarkEnd(r)

McpSpec == Init /\ [][McpNext]_vars

(***************************************************************************)
(* Properties.                                                             *)
(***************************************************************************)
PlanSize == Len(model_specs) * Len(memory_methods) * Len(benchmarks)

Started == phase \in {"sequential", "gathering", "returned", "raised"}

Terminal(k) == StateOf(k) \in {"success", "error"}

\* the positions of the save_result calls made for combination k
SaveCalls(k) == {i \in DOMAIN save_log : save_log[i].k = k}

Raising == {k \in DOMAIN raised_at : raised_at[k] # "none"}

BelongsTo(result, combination) ==
    /\ result.model = combination.model
    /\ result.memory_method = combination.memory_method
    /\ result.benchmark = combination.benchmark

\* the combination names a component that no registry holds
Unregistered(combination) ==
    \/ combination.model.provider \notin DOMAIN providers_registry
    \/ combination.memory_method \notin DOMAIN methods_registry
    \/ combination.benchmark \notin DOMAIN benchmarks_registry

(***************************************************************************)
(* C1  Failure isolation.  When run_full_evaluation returns its summary,   *)
(* total_runs is the size of the plan, entry k of the results belongs to   *)
(* combination k, and the entries with status error are exactly those of   *)
(* the combinations in which the model, memory or benchmark instantiation  *)
(* or run_benchmark raised; all others have status success.                *)
(***************************************************************************)
FailureIsolation ==
    phase = "returned" =>
        /\ summary.total_runs = PlanSize
        /\ DOMAIN summary.results = 1..PlanSize
        /\ DOMAIN raised_at = 1..PlanSize
        /\ \A k \in 1..PlanSize :
            /\ BelongsTo(summary.results[k],
                         Product(model_specs, memory_methods, benchmarks)[k])
            /\ summary.results[k].status =
                   IF k \in Raising THEN "error" ELSE "success"
        /\ summary.failed_runs = Cardinality(Raising)
        /\ summary.successful_runs = PlanSize - Cardinality(Raising)

\* a batch of three has returned; only one model instantiation raised
FailureIsolationWitness ==
    /\ phase = "returned"
    /\ PlanSize = 3
    /\ \E k \in 1..PlanSize :
        /\ raised_at[k] = "model"
        /\ summary.results[k].status = "error"
        /\ \A j \in 1..PlanSize \ {k} :
            raised_at[j] = "none" /\ summary.results[j].status = "success"

(***************************************************************************)
(* C2  Exactly-once persistence.  When run_full_evaluation returns its     *)
(* summary, with either branch, save_result has been called exactly once   *)
(* for every combination of the plan, every call has committed its row,    *)
(* and the results list has exactly one entry per combination.             *)
(***************************************************************************)
ExactlyOncePersistence ==
    phase = "returned" =>
        /\ \A k \in 1..PlanSize : Cardinality(SaveCalls(k)) = 1
        /\ Len(save_log) = PlanSize
        /\ \A i \in DOMAIN save_log : ~save_log[i].raised
        /\ Len(db.rows) = PlanSize
        /\ Len(summary.results) = PlanSize
        /\ \A k \in 1..PlanSize : summary.results[k] = produced[k]

\* a concurrent batch of three has returned and saved out of plan order
ExactlyOncePersistenceWitness ==
    /\ phase = "returned"
    /\ concurrent_evaluations > 1
    /\ PlanSize = 3
    /\ save_log[1].k # 1

(***************************************************************************)
(* C3  Concurrency bound.  With concurrent_evaluations = N > 1, at most N  *)
(* combinations are in flight (past the semaphore and not yet through      *)
(* save_result) in every state, and the semaphore counts the free places.  *)
(***************************************************************************)
InFlight == {k \in DOMAIN lifecycle : StateOf(k) = "running"}

ConcurrencyBound ==
    (Started /\ concurrent_evaluations > 1) =>
        /\ Cardinality(InFlight) <= concurrent_evaluations
        /\ semaphore = concurrent_evaluations - Cardinality(InFlight)

\* the gate is full and a third combination waits before it
ConcurrencyBoundWitness ==
    /\ phase = "gathering"
    /\ concurrent_evaluations = 2
    /\ Cardinality(InFlight) = 2
    /\ \E k \in DOMAIN lifecycle :
        StateOf(k) = "pending" /\ ~Unregistered(combinations[k])

(***************************************************************************)
(* C4  Sequential ordering.  With concurrent_evaluations = 1 at most one   *)
(* combination runs at a time, combination k is not started before the     *)
(* results of all earlier combinations have been saved, and the i-th       *)
(* save_result call, as the i-th stored row, is for combination i.         *)
(***************************************************************************)
SequentialOrdering ==
    (Started /\ concurrent_evaluations = 1) =>
        /\ Cardinality(InFlight) <= 1
        /\ \A i \in DOMAIN save_log : save_log[i].k = i
        /\ \A k \in DOMAIN lifecycle :
            StateOf(k) # "pending" =>
                \A j \in 1..(k - 1) :
                    /\ Terminal(j)
                    /\ j \in DOMAIN save_log /\ ~save_log[j].raised
                    /\ j \in DOMAIN db.rows
                    /\ db.rows[j] = RowOf(produced[j], j)
                    /\ BelongsTo(produced[j], combinations[j])

\* a sequential batch of three has returned, with an error in the middle
SequentialOrderingWitness ==
    /\ phase = "returned"
    /\ concurrent_evaluations = 1
    /\ Len(save_log) = 3
    /\ \E k \in 1..2 : produced[k].status = "error" /\ produced[k + 1].status = "success"

(***************************************************************************)
(* C5  Batch completion (as claimed).  With a concurrency bound of 1 or    *)
(* more, once run_full_evaluation has started it eventually returns a      *)
(* summary.                                                                *)
(***************************************************************************)
Running == phase \in {"sequential", "gathering"} /\ concurrent_evaluations >= 1

SaveRaised == \E i \in DOMAIN save_log : save_log[i].raised

BatchCompletionAsClaimed == Running ~> (phase = "returned")

(***************************************************************************)
(* C5  Batch completion (amended).  With a concurrency bound of 1 or more, *)
(* once run_full_evaluation has started it eventually returns a summary    *)
(* unless a save_result call raises; and it raises only when a save_result *)
(* call raised, never because an instantiation or run_benchmark raised.    *)
(***************************************************************************)
BatchCompletion ==
    /\ Running ~> (phase = "returned" \/ SaveRaised)
    /\ [](phase = "raised" => SaveRaised)

\* a concurrent batch of three has returned although a run_benchmark raised
BatchCompletionWitness ==
    /\ phase = "returned"
    /\ concurrent_evaluations > 1
    /\ PlanSize = 3
    /\ \E k \in DOMAIN raised_at : raised_at[k] = "run"
    /\ ~SaveRaised

(***************************************************************************)
(* C6  Cross-product completeness (as claimed).  The plan has P*M*B        *)
(* combinations and every triple of a model specification, a memory        *)
(* method and a benchmark of the three lists appears in it exactly once.   *)
(***************************************************************************)
Triple(m, mm, b) == [model |-> m, memory_method |-> mm, benchmark |-> b]

Occurrences(s, x) == Cardinality({i \in DOMAIN s : s[i] = x})

TriplesOfPlan ==
    {Triple(m, mm, b) : m \in Range(model_specs), mm \in Range(memory_methods),
                        b \in Range(benchmarks)}

CrossProductAsClaimed ==
    Started =>
        /\ Len(combinations) = PlanSize
        /\ \A x \in TriplesOfPlan : Occurrences(combinations, x) = 1

(***************************************************************************)
(* C6  Cross-product completeness (amended).  The plan has P*M*B           *)
(* combinations, all of them triples of the three lists, and every triple  *)
(* appears as often as the product of the numbers of times its model       *)
(* specification, its memory method and its benchmark are listed: exactly  *)
(* once when no list names an entry twice.                                 *)
(***************************************************************************)
CrossProductCompleteness ==
    Started =>
        /\ Len(combinations) = PlanSize
        /\ Range(combinations) \subseteq TriplesOfPlan
        /\ \A x \in TriplesOfPlan :
            Occurrences(combinations, x) =
                Occurrences(model_specs, x.model)
                    * Occurrences(memory_methods, x.memory_method)
                    * Occurrences(benchmarks, x.benchmark)

\* a plan of 2 x 2 x 2 pairwise different entries
CrossProductCompletenessWitness ==
    /\ Started
    /\ Len(model_specs) = 2 /\ Cardinality(Range(model_specs)) = 2
    /\ Len(memory_methods) = 2 /\ Cardinality(Range(memory_methods)) = 2
    /\ Len(benchmarks) = 2 /\ Cardinality(Range(benchmarks)) = 2
    /\ Len(combinations) = 8

(***************************************************************************)
(* C7  Per-combination state machine.  In every step every combination     *)
(* stays on pending -> running -> success or error: it is started at most  *)
(* once, its run_benchmark is invoked at most once, and once it is in      *)
(* success or error its state and its result never change again (an error  *)
(* is not retried).                                                        *)
(***************************************************************************)
Lifecycles == {<<"pending">>, <<"pending", "running">>,
               <<"pending", "running", "success">>, <<"pending", "running", "error">>}

IsPrefix(s, t) == Len(s) <= Len(t) /\ \A i \in DOMAIN s : s[i] = t[i]

LifecycleStep ==
    \A k \in DOMAIN lifecycle' :
        /\ lifecycle'[k] \in Lifecycles
        /\ invocations'[k] <= 1
        /\ Last(lifecycle'[k]) \in {"success", "error"} =>
               produced'[k].status = Last(lifecycle'[k])
        /\ k \in DOMAIN lifecycle =>
            /\ IsPrefix(lifecycle[k], lifecycle'[k])
            /\ invocations'[k] >= invocations[k]
            /\ Terminal(k) =>
                /\ lifecycle'[k] = lifecycle[k]
                /\ produced'[k] = produced[k]
                /\ invocations'[k] = invocations[k]

PerCombinationStateMachine == [][LifecycleStep]_vars

\* one combination has failed in run_benchmark while another is still running
PerCombinationStateMachineWitness ==
    /\ Started
    /\ \E k, j \in DOMAIN lifecycle :
        /\ lifecycle[k] = <<"pending", "running", "error">>
        /\ invocations[k] = 1
        /\ StateOf(j) = "running"

(***************************************************************************)
(* C8  Storage error atomicity.  The stored runs are exactly the rows of   *)
(* the save_result calls that did not raise, in call order and with        *)
(* consecutive identifiers: a call that raised has left no row, and calls  *)
(* after it still store theirs.  The exception of every failed call has    *)
(* reached the caller of save_result.                                      *)
(***************************************************************************)
CommittedSaves == SelectSeq(save_log, LAMBDA e : ~e.raised)

StorageErrorAtomicity ==
    /\ Len(db.rows) = Len(CommittedSaves)
    /\ db.seq = Len(CommittedSaves)
    /\ \A i \in DOMAIN db.rows :
        db.rows[i] = RowOf(produced[CommittedSaves[i].k], i)
    /\ \A i \in DOMAIN save_log :
        save_log[i].raised =>
            IF concurrent_evaluations = 1
            THEN phase = "raised" /\ i = Len(save_log)
            ELSE task[save_log[i].k] = "raised"

\* a save_result call has raised and a later call has stored its row
StorageErrorAtomicityWitness ==
    \E i, j \in DOMAIN save_log :
        /\ i < j
        /\ save_log[i].raised
        /\ ~save_log[j].raised
        /\ Len(db.rows) >= 1

(***************************************************************************)
(* C9  Configuration errors are fatal.  After the constructor was handed   *)
(* a configuration with no providers, or with a provider whose             *)
(* enabled_models names a model that is not in its models list, the        *)
(* construction has failed: no plan exists, no combination was started and *)
(* nothing was saved.                                                      *)
(***************************************************************************)
ConfigurationErrorsAreFatal ==
    (given.no_providers \/ given.errors # {}) =>
        /\ phase = "config_error"
        /\ combinations = <<>>
        /\ lifecycle = <<>>
        /\ model_specs = <<>>
        /\ save_log = <<>>
        /\ db = EmptyDb
        /\ summary = NoSummary

\* the parse has rejected a provider with an enabled model it does not serve
ConfigurationErrorsAreFatalWitness ==
    /\ ~given.no_providers
    /\ given.errors # {}
    /\ phase = "config_error"

(***************************************************************************)
(* C10  Registry errors are per-combination.  A combination that names a   *)
(* provider, memory method or benchmark that is not registered ends, once  *)
(* it is started, as an error result without a run_benchmark call, and     *)
(* save_result is called with that result; the batch goes on: when it has  *)
(* returned every combination was executed, and it raises only when a      *)
(* save_result call raised.                                                *)
(***************************************************************************)
RegistryErrorsPerCombination ==
    Started =>
        /\ \A k \in DOMAIN combinations :
            (Unregistered(combinations[k]) /\ StateOf(k) # "pending") =>
                /\ lifecycle[k] = <<"pending", "running", "error">>
                /\ produced[k].status = "error"
                /\ BelongsTo(produced[k], combinations[k])
                /\ raised_at[k] \in {"model", "memory", "benchmark"}
                /\ invocations[k] = 0
                /\ Cardinality(SaveCalls(k)) = 1
                /\ \A i \in SaveCalls(k) :
                    ~save_log[i].raised =>
                        \E r \in DOMAIN db.rows : db.rows[r] = RowOf(produced[k], r)
        /\ phase = "returned" => \A k \in DOMAIN combinations : Terminal(k)
        /\ phase = "raised" => \E i \in DOMAIN save_log : save_log[i].raised

\* a batch has returned in which a combination with a benchmark that was not
\* registered is an error and another combination is a success
RegistryErrorsPerCombinationWitness ==
    /\ phase = "returned"
    /\ \E k, j \in DOMAIN combinations :
        /\ combinations[k].benchmark \notin DOMAIN benchmarks_registry
        /\ combinations[k].model.provider \in DOMAIN providers_registry
        /\ combinations[k].memory_method \in DOMAIN methods_registry
        /\ produced[k].status = "error"
        /\ produced[k].error.error_type = "ValueError"
        /\ k < j
        /\ produced[j].status = "success"

(***************************************************************************)
(* C11  Success-rate law.  The summary _generate_summary makes of a list   *)
(* of results, and the one get_summary makes of the stored runs, has       *)
(* total_runs equal to the number of entries, successful_runs equal to the *)
(* number of entries with status success, and success_rate equal to        *)
(* successful_runs / total_runs; for no entries success_rate is 0 (no      *)
(* division by zero).                                                      *)
(***************************************************************************)
Ratio(a, b) == IF b = 0 THEN <<0, 1>> ELSE <<a, b>>

ObeysRateLaw(s, statuses) ==
    /\ s.total_runs = Len(statuses)
    /\ s.successful_runs = Cardinality({i \in DOMAIN statuses : statuses[i] = "success"})
    /\ s.success_rate = Ratio(s.successful_runs, s.total_runs)

SuccessRateLaw ==
    /\ last.op = "_generate_summary" =>
           ObeysRateLaw(last.returned,
                        [i \in DOMAIN last.results |-> last.results[i].status])
    /\ last.op = "get_summary" =>
           ObeysRateLaw(last.returned, [i \in DOMAIN db.rows |-> db.rows[i].status])

\* a summary of no results, with rate 0
SuccessRateLawWitness ==
    /\ last.op = "_generate_summary"
    /\ last.results = <<>>
    /\ last.returned.success_rate = <<0, 1>>

(***************************************************************************)
(* C12  Results round trip (as claimed).  get_result for an identifier     *)
(* that save_result returned for r gives a record with r's model name,     *)
(* provider, memory method, benchmark, status and duration, and with r's   *)
(* results payload.                                                        *)
(***************************************************************************)
\* the results saved under the identifier of the last get_result call
SavedAs(id) == {issued[i].result : i \in {j \in DOMAIN issued : issued[j].id = id}}

WellFormed(r) ==
    /\ {"model", "memory_method", "benchmark", "status", "results"} \subseteq DOMAIN r
    /\ {"name", "provider"} \subseteq DOMAIN r.model

SameLabels(run, r) ==
    /\ run.model_name = r.model.name
    /\ run.model_provider = r.model.provider
    /\ run.memory_method = r.memory_method
    /\ run.benchmark = r.benchmark
    /\ run.status = r.status
    /\ run.duration_seconds = DictGet(r, "duration_seconds", None)

RoundTripAsClaimed ==
    (last.op = "get_result" /\ last.returned.found) =>
        \A r \in SavedAs(last.id) :
            WellFormed(r) =>
                SameLabels(last.returned.run, r) /\ last.returned.run.results = r.results

(***************************************************************************)
(* C12  Results round trip (amended).  The labels and the duration are     *)
(* r's; the results payload is r's payload as json.loads reads what        *)
(* json.dumps wrote of it, which is the payload itself when it is made of  *)
(* JSON types only (a dictionary with string keys, a list).                *)
(***************************************************************************)
JsonTypesOnly(value) ==
    \/ value.type = "list"
    \/ value.type = "dict" /\ \A e \in value.entries : e.key.t = "str"

RoundTrip ==
    (last.op = "get_result" /\ last.returned.found) =>
        \A r \in SavedAs(last.id) :
            WellFormed(r) =>
                /\ SameLabels(last.returned.run, r)
                /\ last.returned.run.results = loads(dumps(r.results))
                /\ JsonTypesOnly(r.results) => last.returned.run.results = r.results

\* the first of two saved results is read back, with its payload
RoundTripWitness ==
    /\ last.op = "get_result"
    /\ last.returned.found
    /\ Len(issued) >= 2
    /\ last.id = issued[1].id
    /\ WellFormed(issued[1].result)
    /\ issued[1].result.results = Metrics
    /\ last.returned.run.results = Metrics
    /\ issued[2].result # issued[1].result

(***************************************************************************)
(* C13  A stored run keeps the fields of its result.  get_result for the   *)
(* identifier of a result the orchestrator produced gives a record with    *)
(* the result's timestamp, duration, labels and status, with its results   *)
(* payload when it is a success and with its error payload when it is an   *)
(* error.                                                                  *)
(***************************************************************************)
CarriesError(run, r) ==
    \/ "error" \in DOMAIN run /\ run.error = r.error
    \/ run.results = r.error

StoredRunKeepsFields ==
    (last.op = "get_result" /\ last.returned.found) =>
        \A r \in SavedAs(last.id) \cap OrchestratorResults :
            /\ last.returned.run.timestamp = r.timestamp
            /\ SameLabels(last.returned.run, r)
            /\ r.status = "success" => last.returned.run.results = r.results
            /\ r.status = "error" => CarriesError(last.returned.run, r)

(***************************************************************************)
(* C14  Identifier discipline.  The identifiers save_result returns are    *)
(* strictly increasing in the order of the calls, whatever was deleted or  *)
(* cleared in between, so none is returned twice; and every stored run     *)
(* has an identifier that was returned.                                    *)
(***************************************************************************)
IdentifierDiscipline ==
    /\ \A i, j \in DOMAIN issued : i < j => issued[i].id < issued[j].id
    /\ \A i \in DOMAIN db.rows : \E j \in DOMAIN issued : issued[j].id = db.rows[i].id

\* a save_result after the run with the highest identifier was deleted
IdentifierDisciplineWitness ==
    /\ Len(issued) >= 2
    /\ last.op = "save_result"
    /\ ~last.raised
    /\ last.id = issued[Len(issued)].id
    /\ RowsWithId(db, issued[Len(issued) - 1].id) = <<>>
    /\ last.id > issued[Len(issued) - 1].id

(***************************************************************************)
(* C15  Query filter conjunction (as claimed).  Without a limit,           *)
(* query_results returns, each once, exactly the stored runs that agree    *)
(* with every filter that was supplied (is not None).                      *)
(***************************************************************************)
ReturnedIds == {last.returned[i].id : i \in DOMAIN last.returned}

StoredIds(supplied(_)) ==
    {db.rows[i].id : i \in {j \in DOMAIN db.rows :
        \A name \in FilterNames :
            supplied(last.filters[name]) => db.rows[j][name] = last.filters[name]}}

NotNone(value) == value # None

NotEmpty(value) == value # None /\ value # ""

FilterConjunctionAsClaimed ==
    (last.op = "query_results" /\ ~last.limit.has) =>
        /\ ReturnedIds = StoredIds(NotNone)
        /\ Len(last.returned) = Cardinality(ReturnedIds)

(***************************************************************************)
(* C15  Query filter conjunction (amended).  Without a limit,              *)
(* query_results returns, each once, exactly the stored runs that agree    *)
(* with every filter that was supplied with a non-empty value; a filter    *)
(* that is None or the empty string imposes no constraint.                 *)
(***************************************************************************)
FilterConjunction ==
    (last.op = "query_results" /\ ~last.limit.has) =>
        /\ ReturnedIds = StoredIds(NotEmpty)
        /\ Len(last.returned) = Cardinality(ReturnedIds)
        /\ \A i \in DOMAIN last.returned :
            last.returned[i] = get_result(db, last.returned[i].id).run

\* of three stored runs, the one that has both the model and the memory method
FilterConjunctionWitness ==
    /\ last.op = "query_results"
    /\ ~last.limit.has
    /\ last.filters.model_name = "m1"
    /\ last.filters.memory_method = "summary"
    /\ Len(db.rows) = 3
    /\ Len(last.returned) = 1
    /\ \E i \in DOMAIN db.rows :
        db.rows[i].model_name = "m1" /\ db.rows[i].memory_method # "summary"
    /\ \E i \in DOMAIN db.rows :
        db.rows[i].model_name # "m1" /\ db.rows[i].memory_method # "summary"

(***************************************************************************)
(* C16  Query ordering (as claimed).  Of two records query_results         *)
(* returns, the one that was saved later (it has the larger identifier)    *)
(* is listed before the one that was saved earlier.                        *)
(***************************************************************************)
QueryOrderingAsClaimed ==
    last.op = "query_results" =>
        \A i, j \in DOMAIN last.returned :
            i < j => last.returned[i].id > last.returned[j].id

(***************************************************************************)
(* C16  Query ordering (amended).  query_results lists the matching runs   *)
(* in non-increasing order of created_at, the time in whole seconds the    *)
(* store assigned: of two returned records with different creation times   *)
(* the one saved later is listed first, and a matching run that a limit    *)
(* cut off is no newer than any returned one.  The order of runs created   *)
(* in the same second is not determined.                                   *)
(***************************************************************************)
QueryOrdering ==
    last.op = "query_results" =>
        /\ \A i, j \in DOMAIN last.returned :
            i < j =>
                /\ last.returned[i].created_at >= last.returned[j].created_at
                /\ last.returned[i].created_at # last.returned[j].created_at
                        => last.returned[i].id > last.returned[j].id
        /\ \A k \in DOMAIN db.rows :
            (Matches(db.rows[k], last.filters) /\ db.rows[k].id \notin ReturnedIds)
                => \A i \in DOMAIN last.returned :
                    db.rows[k].created_at <= last.returned[i].created_at

\* three runs returned, saved in two different seconds
QueryOrderingWitness ==
    /\ last.op = "query_results"
    /\ Len(last.returned) = 3
    /\ last.returned[1].created_at > last.returned[3].created_at
    /\ last.returned[1].id > last.returned[3].id

(***************************************************************************)
(* C17  Append-only store.  No call changes a stored row in place; a call  *)
(* of save_result keeps every stored row and adds at most one; get_result, *)
(* query_results, get_summary, export_to_json and the construction of      *)
(* another ResultsStorage leave the rows as they are; a row disappears     *)
(* only in delete_result and clear_all_results.                            *)
(***************************************************************************)
ReadingCalls ==
    {"get_result", "query_results", "get_summary", "export_to_json", "__init__"}

RowsOf(store) == {store.rows[i] : i \in DOMAIN store.rows}

AppendOnlyStep ==
    /\ \A old \in RowsOf(db) : \A new \in RowsOf(db') : old.id = new.id => old = new
    /\ last'.op = "save_result" =>
        /\ Len(db'.rows) <= Len(db.rows) + 1
        /\ SubSeq(db'.rows, 1, Len(db.rows)) = db.rows
    /\ last'.op \in ReadingCalls => db'.rows = db.rows
    /\ RowsOf(db) \ RowsOf(db') # {} => last'.op \in {"delete_result", "clear_all_results"}
    /\ RowsOf(db') \ RowsOf(db) # {} => last'.op = "save_result"

DeleteStep ==
    last'.op = "delete_result" =>
        /\ last'.returned = (\E row \in RowsOf(db) : row.id = last'.id)
        /\ ~get_result(db', last'.id).found
        /\ \A id \in 1..MaxRuns :
            id # last'.id => get_result(db', id) = get_result(db, id)
        /\ Len(db'.rows) = Len(db.rows) - (IF last'.returned THEN 1 ELSE 0)

ClearStep ==
    last'.op = "clear_all_results" =>
        /\ db'.rows = <<>>
        /\ \A id \in 1..MaxRuns : ~get_result(db', id).found

DeleteAndClear == [][DeleteStep /\ ClearStep]_vars

\* the second of three stored runs was deleted; the other two are stored
DeleteAndClearWitness ==
    /\ last.op = "delete_result"
    /\ last.id = 2
    /\ last.returned
    /\ get_result(db, 1).found
    /\ ~get_result(db, 2).found
    /\ get_result(db, 3).found

(***************************************************************************)
(* C19  Lenient model labelling.  When nothing in the environment fails,   *)
(* save_result stores a result whose model information is absent or        *)
(* malformed, with "unknown" as the model name where the result has no     *)
(* model name and "unknown" as the provider where it has no provider.      *)
(***************************************************************************)
HasNoModelName(result) ==
    \/ "model" \notin DOMAIN result
    \/ IsMapping(result.model) /\ "name" \notin DOMAIN result.model

HasNoModelProvider(result) ==
    \/ "model" \notin DOMAIN result
    \/ ~IsMapping(result.model)
    \/ "provider" \notin DOMAIN result.model

LenientModelLabelling ==
    (last.op = "save_result" /\ last.fault = "none" /\ last.result \in MalformedResults) =>
        /\ ~last.raised
        /\ get_result(db, last.id).found
        /\ HasNoModelName(last.result)
                => get_result(db, last.id).run.model_name = "unknown"
        /\ HasNoModelProvider(last.result)
                => get_result(db, last.id).run.model_provider = "unknown"

(***************************************************************************)
(* C20  Shared storage location.  With save_result called through several *)
(* ResultsStorage instances on one location, in any interleaving: the      *)
(* calls that returned got pairwise distinct identifiers; the record of    *)
(* every one of them is stored under its identifier as it was saved; a     *)
(* row is not visible before its call has committed; and get_result        *)
(* through any instance returns the record saved through any other.        *)
(***************************************************************************)
SharedStorage ==
    /\ \A k, l \in DOMAIN issued : k # l => issued[k].id # issued[l].id
    /\ \A k \in DOMAIN issued :
        /\ get_result(db, issued[k].id).found
        /\ get_result(db, issued[k].id).run = RunOf(RowOf(issued[k].result, issued[k].id))
    /\ Len(db.rows) = Len(issued)
    /\ \A i \in Instances :
        open[i].state = "inserted" => ~get_result(db, open[i].tx.seq).found
    /\ last.op = "get_result" =>
        \A k \in DOMAIN issued :
            issued[k].id = last.id =>
                /\ last.returned.found
                /\ last.returned.run = RunOf(RowOf(issued[k].result, issued[k].id))

\* both instances have saved, and the second reads what the first saved while
\* the first is saving again
SharedStorageWitness ==
    /\ last.op = "get_result"
    /\ last.instance = 2
    /\ last.returned.found
    /\ \E k \in DOMAIN issued : issued[k].id = last.id /\ issued[k].instance = 1
    /\ \E k \in DOMAIN issued : issued[k].instance = 2
    /\ open[1].state = "inserted"

(***************************************************************************)
(* C21  Registry overwrite.  In each registry the names registered are     *)
(* exactly those registered at module load and those registered since;     *)
(* every name has the class it was registered with most recently; create   *)
(* makes an object of that class; list_available returns these names.      *)
(***************************************************************************)
RegistrationsOf(kind, name) ==
    {i \in DOMAIN reglog : reglog[i].registry = kind /\ reglog[i].name = name}

Latest(indices) == CHOOSE i \in indices : \A j \in indices : j <= i

LatestClass(kind, name) ==
    IF RegistrationsOf(kind, name) # {}
    THEN reglog[Latest(RegistrationsOf(kind, name))].cls
    ELSE InitialRegistry(kind)[name]

RegisteredSoFar(kind) ==
    DOMAIN InitialRegistry(kind)
        \cup {reglog[i].name : i \in {j \in DOMAIN reglog : reglog[j].registry = kind}}

RegistryOverwrite ==
    /\ \A kind \in RegistryKinds :
        /\ DOMAIN RegistryOf(kind) = RegisteredSoFar(kind)
        /\ \A name \in DOMAIN RegistryOf(kind) :
            RegistryOf(kind)[name] = LatestClass(kind, name)
    /\ (last.op = "create" /\ ~last.raised) =>
        heap[last.address].cls = LatestClass(last.registry, last.name)
    /\ last.op = "list_available" => last.returned = RegisteredSoFar(last.registry)

\* a name that was registered twice, with different classes, is created
RegistryOverwriteWitness ==
    /\ last.op = "create"
    /\ ~last.raised
    /\ Len(reglog) = 2
    /\ reglog[1].registry = last.registry
    /\ reglog[2].registry = last.registry
    /\ reglog[1].name = last.name
    /\ reglog[2].name = last.name
    /\ reglog[1].cls # reglog[2].cls
    /\ heap[last.address].cls = reglog[2].cls

(***************************************************************************)
(* C22  Registry lookup failure.  In each registry, create for a name that *)
(* is not registered raises a ValueError that lists the registered names,  *)
(* makes no object and leaves the registry as it was.                      *)
(***************************************************************************)
RegistryLookupFailure ==
    (last.op = "create" /\ last.name \notin RegisteredSoFar(last.registry)) =>
        /\ last.raised
        /\ last.error.type = "ValueError"
        /\ last.error.available = Present(RegisteredSoFar(last.registry))
        /\ last.address = 0
        /\ DOMAIN RegistryOf(last.registry) = RegisteredSoFar(last.registry)

(***************************************************************************)
(* C23  Registries are read-only during a batch.  From the call of         *)
(* run_full_evaluation on, no step - the create calls of a combination     *)
(* included - changes the names or the classes registered in the model,    *)
(* the memory or the benchmark registry, whatever the concurrency bound.   *)
(***************************************************************************)
InBatch == phase \in {"ready", "sequential", "gathering", "raised"}

CreateStep ==
    (last'.op = "create" /\ ~last'.raised) =>
        /\ last'.address \notin DOMAIN heap
        /\ last'.address \in DOMAIN heap'
        /\ heap'[last'.address] =
                New(last'.registry, RegistryOf(last'.registry)[last'.name], last'.arg)
        /\ \A a \in DOMAIN heap : heap'[a] = heap[a]

SetAttributeStep ==
    last'.op = "setattr" =>
        /\ DOMAIN heap' = DOMAIN heap
        /\ heap'[last'.address] # heap[last'.address]
        /\ \A a \in DOMAIN heap : a # last'.address => heap'[a] = heap[a]

TokenStarts(text) ==
    {i \in DOMAIN text : text[i] \notin Whitespace
                            /\ (i = 1 \/ text[i - 1] \in Whitespace)}

TokenEnds(text) ==
    {i \in DOMAIN text : text[i] \notin Whitespace
                            /\ (i = Len(text) \/ text[i + 1] \in Whitespace)}

\* the k-th smallest element of a set of numbers
Nth(S, k) == CHOOSE i \in S : Cardinality({j \in S : j <= i}) = k

Token(text, k) == SubSeq(text, Nth(TokenStarts(text), k), Nth(TokenEnds(text), k))

\* a text that is the first n tokens of the text with single spaces between
IsFirstTokensOf(result, text, n) ==
    /\ Cardinality(TokenStarts(result)) = n
    /\ \A k \in 1..n : Token(result, k) = Token(text, k)
    /\ \A i \in DOMAIN result : result[i] \in Whitespace =>
        /\ result[i] = " "
        /\ 1 < i /\ i < Len(result)
        /\ result[i - 1] \notin Whitespace
        /\ result[i + 1] \notin Whitespace

TruncationResult ==
    last.op = "process" =>
        LET N == IF last.kwargs.has THEN last.kwargs.val ELSE last.max_tokens
            count == Cardinality(TokenStarts(last.text))
        IN /\ count = 0 => last.returned = <<>>
           /\ (0 < count /\ count <= N) => last.returned = last.text
           /\ count > N => IsFirstTokensOf(last.returned, last.text, N)
           /\ (N = 0 /\ last.text # <<>>) => last.returned = <<>>

\* three tokens parted by a newline and a space, cut to the two tokens the
\* call asks for, on an instance whose own budget is 0
TruncationResultWitness ==
    /\ last.op = "process"
    /\ last.text = <<"a", "\n", "b", " ", "a">>
    /\ last.max_tokens = 0
    /\ last.kwargs = Present(2)
    /\ last.returned = <<"a", " ", "b">>

(***************************************************************************)
(* C26  Model failures are not masked.  When generate_text of the model    *)
(* has raised during the benchmark run of a combination, the result the    *)
(* failure boundary returns for the combination has the status error.      *)
(***************************************************************************)
ModelFailuresNotMasked ==
    (last.op = "_run_single_evaluation_with_error_handling" /\ last.model_raised) =>
        last.returned.status = "error"

(***************************************************************************)
(* C27  Pre-run validation (as claimed).  A batch never runs on an empty   *)
(* plan: when run_full_evaluation has started, there is an enabled model,  *)
(* a memory method and a benchmark, so the plan has a combination.         *)
(***************************************************************************)
BatchStarted == phase \in {"sequential", "gathering", "raised"}

PreRunValidationAsClaimed ==
    BatchStarted =>
        /\ model_specs # <<>>
        /\ memory_methods # <<>>
        /\ benchmarks # <<>>
        /\ combinations # <<>>

(***************************************************************************)
(* C27  Pre-run validation (amended).  validate_config, which main calls   *)
(* before it constructs the orchestrator, rejects a configuration in which *)
(* no provider has enabled models, memory_methods is missing or empty, or  *)
(* executed_benchmarks is missing or empty; a batch started for a          *)
(* configuration that passed validate_config never runs on an empty plan.  *)
(* The constructor itself rejects only a configuration without enabled     *)
(* models, so every batch has a model.                                     *)
(***************************************************************************)
NoEnabledModels(config) ==
    \A i \in DOMAIN config.providers : config.providers[i].enabled_models = <<>>

MissingOrEmpty(entry) == ~entry.has \/ entry.val = <<>>

PreRunValidation ==
    /\ last.op = "validate_config" =>
        /\ (\/ NoEnabledModels(last.config)
            \/ MissingOrEmpty(last.config.memory_methods)
            \/ MissingOrEmpty(last.config.executed_benchmarks))
                => last.error # None
        /\ last.error # None => phase = "rejected"
        /\ BatchStarted =>
            /\ memory_methods # <<>>
            /\ benchmarks # <<>>
            /\ combinations # <<>>
    /\ BatchStarted => model_specs # <<>>

\* a concurrent batch of two combinations for a validated configuration
PreRunValidationWitness ==
    /\ last.op = "validate_config"
    /\ last.error = None
    /\ phase = "gathering"
    /\ Len(combinations) = 2
    /\ \E k \in DOMAIN combinations : StateOf(k) = "running"

(***************************************************************************)
(* C28  Deterministic plan order.  The model specifications are those of   *)
(* the providers in the order of the configuration and, within a provider, *)
(* in the order of enabled_models; the plan lists the triples model-major, *)
(* then by memory method, then by benchmark.  The plan is thereby a        *)
(* function of the configuration: every run that builds it from the same   *)
(* configuration gets the same sequence.                                   *)
(***************************************************************************)
\* the number of models enabled by the providers before provider p
EnabledBefore(config, p) ==
    Cardinality({pair \in (1..(p - 1)) \X (1..MaxLen) :
                    pair[2] <= Len(config.providers[pair[1]].enabled_models)})

SpecsInConfigurationOrder(config) ==
    /\ Len(model_specs) = EnabledBefore(config, Len(config.providers) + 1)
    /\ \A p \in DOMAIN config.providers :
        \A e \in DOMAIN config.providers[p].enabled_models :
            model_specs[EnabledBefore(config, p) + e] =
                [name |-> config.providers[p].enabled_models[e],
                 provider |-> config.providers[p].name]

PlanModelMajor(config) ==
    LET mems == config.memory_methods.val
        bs == config.executed_benchmarks.val
    IN /\ Len(combinations) = Len(model_specs) * Len(mems) * Len(bs)
       /\ \A i \in DOMAIN model_specs : \A j \in DOMAIN mems : \A k \in DOMAIN bs :
            combinations[((i - 1) * Len(mems) + (j - 1)) * Len(bs) + k] =
                [model |-> model_specs[i], memory_method |-> mems[j],
                 benchmark |-> bs[k]]

DeterministicPlanOrder ==
    (last.op = "validate_config" /\ phase = "sequential") =>
        /\ SpecsInConfigurationOrder(last.config)
        /\ PlanModelMajor(last.config)

\* two providers, one of them with two models, two memory methods and two
\* benchmarks: a plan of twelve combinations
DeterministicPlanOrderWitness ==
    /\ last.op = "validate_config"
    /\ phase = "sequential"
    /\ Len(last.config.providers) = 2
    /\ Len(model_specs) = 3 /\ Cardinality(Range(model_specs)) = 3
    /\ Cardinality(Range(memory_methods)) = 2
    /\ Cardinality(Range(benchmarks)) = 2
    /\ Len(combinations) = 12

(***************************************************************************)
(* C29  Real parallelism.  When a batch of K >= 2 combinations with        *)
(* concurrent_evaluations = N >= 2 has returned and every combination has  *)
(* spent the time T in run_benchmark, the time the batch took is closer to *)
(* ceil(K/N)*T than to K*T: the executions overlapped, min(N, K) of them   *)
(* were running at the same time.                                          *)
(***************************************************************************)
Rounds(K, N) == (K + N - 1) \div N

RealParallelism ==
    (/\ phase = "returned"
     /\ concurrent_evaluations >= 2
     /\ Len(combinations) >= 2
     /\ \A k \in DOMAIN combinations : invocations[k] = 1) =>
        2 * timer.clock <
            (Rounds(Len(combinations), concurrent_evaluations) + Len(combinations))
                * Duration

(***************************************************************************)
(* C30  Error classification.  The error result made for a failed          *)
(* combination carries the kind and the message of the exception that was  *)
(* raised for it, and the model name, the provider, the memory method and  *)
(* the benchmark of that combination, whatever the other combinations are  *)
(* doing at the time.                                                      *)
(***************************************************************************)
\* the kind of the exception raised for combination k at the step raised_at[k]
RaisedKind(k) ==
    IF \/ raised_at[k] = "model"
          /\ combinations[k].model.provider \notin DOMAIN providers_registry
       \/ raised_at[k] = "memory"
          /\ combinations[k].memory_method \notin DOMAIN methods_registry
       \/ raised_at[k] = "benchmark"
          /\ combinations[k].benchmark \notin DOMAIN benchmarks_registry
    THEN "ValueError" ELSE "RuntimeError"

ErrorClassification ==
    \A k \in DOMAIN produced :
        produced[k].status = "error" =>
            /\ raised_at[k] # "none"
            /\ produced[k].error =
                [model |-> combinations[k].model.name,
                 provider |-> combinations[k].model.provider,
                 memory_method |-> combinations[k].memory_method,
                 benchmark |-> combinations[k].benchmark,
                 error_type |-> RaisedKind(k),
                 error_message |-> MessageOf(RaisedKind(k))]
            /\ produced[k].model = combinations[k].model
            /\ produced[k].memory_method = combinations[k].memory_method
            /\ produced[k].benchmark = combinations[k].benchmark

\* two combinations have failed in different ways while a third is running
ErrorClassificationWitness ==
    /\ phase = "gathering"
    /\ concurrent_evaluations = 2
    /\ \E j, k, m \in DOMAIN combinations :
        /\ produced[j].status = "error" /\ produced[j].error.error_type = "ValueError"
        /\ produced[k].status = "error" /\ raised_at[k] = "run"
        /\ combinations[j] # combinations[k]
        /\ StateOf(m) = "running"

(***************************************************************************)
(* C31  Store summary consistency.  Whatever save_result, delete_result    *)
(* and clear_all_results calls were made, get_summary reports as           *)
(* total_runs the number of stored runs, as successful_runs and            *)
(* failed_runs the numbers of stored runs saved with status success and    *)
(* error, and as models, memory methods and benchmarks exactly the names   *)
(* of the results whose runs are stored.                                   *)
(***************************************************************************)
\* the results whose runs are in the store, by the identifiers issued for them
RowIds == {db.rows[i].id : i \in DOMAIN db.rows}

StoredResults == {i \in DOMAIN issued : issued[i].id \in RowIds}

SavedWithStatus(status) ==
    {i \in StoredResults : DictGet(issued[i].result, "status", "unknown") = status}

ModelNameOf(result) ==
    IF IsMapping(result.model) THEN result.model.name ELSE result.model.repr

StoreSummaryConsistency ==
    last.op = "get_summary" =>
        /\ last.returned.total_runs = Cardinality(StoredResults)
        /\ last.returned.successful_runs = Cardinality(SavedWithStatus("success"))
        /\ last.returned.failed_runs = Cardinality(SavedWithStatus("error"))
        /\ last.returned.models = {ModelNameOf(issued[i].result) : i \in StoredResults}
        /\ last.returned.memory_methods =
               {DictGet(issued[i].result, "memory_method", "unknown") : i \in StoredResults}
        /\ last.returned.benchmarks =
               {DictGet(issued[i].result, "benchmark", "unknown") : i \in StoredResults}

\* a summary of a success and an error that are left after a deletion
StoreSummaryConsistencyWitness ==
    /\ last.op = "get_summary"
    /\ Len(issued) = 3
    /\ last.returned.total_runs = 2
    /\ last.returned.successful_runs = 1
    /\ last.returned.failed_runs = 1
    /\ Cardinality(last.returned.memory_methods) = 1

(***************************************************************************)
(* C32  Storage failures are not benchmark failures.  When save_result has *)
(* raised for a combination, run_full_evaluation does not return a         *)
(* summary: the exception leaves the loop (bound 1) or the task and        *)
(* gather (bound > 1).  The result of the combination is not turned into   *)
(* an error result and not saved a second time, and with bound 1 no later  *)
(* combination of the plan is started.                                     *)
(***************************************************************************)
SaveRaisedFor == {save_log[i].k : i \in {j \in DOMAIN save_log : save_log[j].raised}}

StorageFailurePropagates ==
    SaveRaisedFor # {} =>
        /\ phase \in {"gathering", "raised"}
        /\ concurrent_evaluations = 1 => phase = "raised"
        /\ summary = NoSummary
        /\ \A k \in SaveRaisedFor :
            /\ Cardinality({i \in DOMAIN save_log : save_log[i].k = k}) = 1
            /\ produced[k].status = "error" <=> raised_at[k] # "none"
            /\ StateOf(k) = produced[k].status
            /\ concurrent_evaluations = 1 =>
                \A j \in DOMAIN combinations : j > k => lifecycle[j] = <<"pending">>

\* bound 1: the save of the first, successful combination of two has raised
StorageFailurePropagatesWitness ==
    /\ concurrent_evaluations = 1
    /\ Len(combinations) >= 2
    /\ SaveRaisedFor = {1}
    /\ raised_at[1] = "none"
    /\ produced[1].status = "success"
    /\ phase = "raised"

(***************************************************************************)
(* C33  Demo-mode task limit is restored.  When every mcpbench combination *)
(* of a batch has ended, by return or by exception, the benchmark          *)
(* configuration block has the task_limit it had before the batch, with a  *)
(* concurrency bound of 1 and with a greater one.                          *)
(***************************************************************************)
McpEnded == \A r \in McpRuns : mcp_run.runs[r].pc \in {"returned", "raised"}

TaskLimitRestored ==
    (mcp_run # NoBlock /\ McpEnded) =>
        mcp_run.cfg.task_limit = mcp_run.configured.task_limit

(***************************************************************************)
(* C34  One benchmark registry.  When the orchestrator creates the adapter *)
(* for a benchmark name that was registered through ComponentRegistry.     *)
(* register_benchmark, the creation succeeds and the adapter is an         *)
(* instance of the class registered last under that name, through either   *)
(* module: there is one mapping from names to benchmark factories.         *)
(***************************************************************************)
BenchmarkRegistrations(name) ==
    {i \in DOMAIN reglog : reglog[i].registry \in {"components", "benchmarks"}
                           /\ reglog[i].name = name}

OneBenchmarkRegistry ==
    (/\ last.op = "create"
     /\ last.registry = "benchmarks"
     /\ RegistrationsOf("components", last.name) # {}) =>
        /\ ~last.raised
        /\ heap[last.address].cls = reglog[Latest(BenchmarkRegistrations(last.name))].cls

(***************************************************************************)
(* C35  Result limit.  query_results with limit = L, for every integer     *)
(* L >= 0, returns min(L, number of matching runs) records, so at most L,  *)
(* and a matching run that is left out is no newer than a returned one;    *)
(* without a limit it returns all matching runs.                           *)
(***************************************************************************)
MatchingRows == {k \in DOMAIN db.rows : Matches(db.rows[k], last.filters)}

ResultLimit ==
    last.op = "query_results" =>
        IF last.limit.has
        THEN /\ Len(last.returned) <= last.limit.val
             /\ Len(last.returned) =
                    IF last.limit.val < Cardinality(MatchingRows)
                    THEN last.limit.val ELSE Cardinality(MatchingRows)
             /\ \A k \in MatchingRows :
                    db.rows[k].id \notin ReturnedIds
                        => \A i \in DOMAIN last.returned :
                            db.rows[k].created_at <= last.returned[i].created_at
        ELSE {last.returned[i].id : i \in DOMAIN last.returned}
                 = {db.rows[k].id : k \in MatchingRows}

(***************************************************************************)
(* C36  enable_model reports what it did.  A call that returns True has    *)
(* added the model to the enabled_models of the provider: the model is     *)
(* listed by get_enabled_models_summary and counted by                     *)
(* get_total_enabled_models.  The call returns False and leaves the        *)
(* configuration as it was when the provider is unknown, the model is not  *)
(* in the models list of the provider, or the model is enabled already.    *)
(* This holds also for a provider section without an enabled_models key.   *)
(***************************************************************************)
EnabledBeforeCall ==
    /\ last.provider \in DOMAIN last.before
    /\ last.model \in Range(Get(last.before[last.provider].enabled_models, <<>>))

EnableModelReports ==
    last.op = "enable_model" =>
        /\ last.returned =>
            /\ last.provider \in DOMAIN get_enabled_models_summary(providers_config.providers)
            /\ last.model \in
                 Range(get_enabled_models_summary(providers_config.providers)[last.provider])
            /\ get_total_enabled_models(providers_config.providers) =
                 get_total_enabled_models(last.before) + 1
        /\ ~last.returned => providers_config.providers = last.before
        /\ (\/ last.provider \notin DOMAIN last.before
            \/ last.model \notin Range(last.before[last.provider].models)
            \/ EnabledBeforeCall) => ~last.returned

(***************************************************************************)
(* C37  Enable/disable keep the configuration valid.  When the loaded      *)
(* configuration has, for every provider, an enabled_models list without   *)
(* duplicates whose entries are all in the models list, the same holds     *)
(* after every sequence of enable_model and disable_model calls, and       *)
(* disable_model returns True exactly when the model was enabled before    *)
(* the call and is not enabled after it.                                   *)
(***************************************************************************)
DuplicateFree(list) == \A i, j \in DOMAIN list : list[i] = list[j] => i = j

ValidProviders(providers) ==
    \A name \in DOMAIN providers :
        /\ providers[name].enabled_models.has
        /\ DuplicateFree(providers[name].enabled_models.val)
        /\ Range(providers[name].enabled_models.val) \subseteq Range(providers[name].models)

EnabledAfterCall ==
    /\ last.provider \in DOMAIN providers_config.providers
    /\ last.model \in
         Range(Get(providers_config.providers[last.provider].enabled_models, <<>>))

ConfigurationStaysValid ==
    (providers_config # NoConfig /\ ValidProviders(providers_config.loaded)) =>
        /\ ValidProviders(providers_config.providers)
        /\ last.op = "disable_model" =>
            (last.returned <=> (EnabledBeforeCall /\ ~EnabledAfterCall))

\* a model was enabled, then another one, then the first was disabled
ConfigurationStaysValidWitness ==
    /\ providers_config # NoConfig
    /\ ValidProviders(providers_config.loaded)
    /\ last.op = "disable_model"
    /\ last.returned
    /\ last.provider = "ollama"
    /\ "ollama" \in DOMAIN providers_config.loaded
    /\ providers_config.loaded["ollama"].enabled_models.val = <<"m1">>
    /\ providers_config.providers["ollama"].enabled_models.val = <<"m2">>

(***************************************************************************)
(* C38  Summary order.  For every concurrency bound and every order in     *)
(* which the combinations complete, the results list of the summary that   *)
(* run_full_evaluation returns is in run-plan order: it has one entry per  *)
(* combination and entry i is the result of combination i of the plan.     *)
(***************************************************************************)
SummaryOrder ==
    phase = "returned" =>
        /\ Len(summary.results) = Len(combinations)
        /\ \A i \in DOMAIN combinations :
            /\ summary.results[i].model = combinations[i].model
            /\ summary.results[i].memory_method = combinations[i].memory_method
            /\ summary.results[i].benchmark = combinations[i].benchmark
            /\ summary.results[i] = produced[i]

\* a concurrent batch whose second combination was saved first, and whose
\* first two combinations differ
SummaryOrderWitness ==
    /\ phase = "returned"
    /\ concurrent_evaluations = 2
    /\ Len(combinations) >= 2
    /\ combinations[1] # combinations[2]
    /\ save_log[1].k = 2
    /\ summary.results[1].status # summary.results[2].status

(***************************************************************************)
(* C39  Sequential and concurrent execution agree.  The summary that       *)
(* run_full_evaluation returns and the records it leaves in the Results    *)
(* Store are determined by the plan and by which combinations raise, and   *)
(* by nothing else: total_runs, successful_runs, failed_runs, the status   *)
(* of every combination and the set of (model, memory method, benchmark,   *)
(* status) records are the same for bound 1 and for any bound above 1.     *)
(***************************************************************************)
\* the status the outcome of combination k calls for
StatusByOutcome(k) == IF raised_at[k] = "none" THEN "success" ELSE "error"

RecordsByOutcome ==
    {<<combinations[k].model.name, combinations[k].memory_method,
       combinations[k].benchmark, StatusByOutcome(k)>> : k \in DOMAIN combinations}

RecordsInStore ==
    {<<db.rows[i].model_name, db.rows[i].memory_method, db.rows[i].benchmark,
       db.rows[i].status>> : i \in DOMAIN db.rows}

SequentialConcurrentAgree ==
    phase = "returned" =>
        /\ summary.total_runs = Len(combinations)
        /\ summary.successful_runs =
               Cardinality({k \in DOMAIN combinations : raised_at[k] = "none"})
        /\ summary.failed_runs =
               Cardinality({k \in DOMAIN combinations : raised_at[k] # "none"})
        /\ \A k \in DOMAIN combinations : summary.results[k].status = StatusByOutcome(k)
        /\ RecordsInStore = RecordsByOutcome

\* a concurrent batch that returned with a combination that raised and one
\* that did not, the two completing against the order of the plan
SequentialConcurrentAgreeWitness ==
    /\ phase = "returned"
    /\ concurrent_evaluations > 1
    /\ Len(combinations) >= 2
    /\ raised_at[1] # "none"
    /\ raised_at[2] = "none"
    /\ save_log[1].k # 1
    /\ Cardinality(RecordsInStore) >= 2

(***************************************************************************)
(* C40  Gate with no permits.  run_full_evaluation takes the sequential    *)
(* path only when concurrent_evaluations is 1.  With concurrent_evaluations*)
(* 0 and a plan that is not empty, every combination waits at the          *)
(* semaphore for ever: no combination starts, nothing is saved and         *)
(* run_full_evaluation does not return.                                    *)
(***************************************************************************)
\* run_full_evaluation has been called with a plan that is not empty
BatchEntered == phase \notin {"new", "load_error", "config_error", "ready"}
                    /\ combinations # <<>>

GateWithNoPermits ==
    /\ phase = "sequential" \/ index > 0 => concurrent_evaluations = 1
    /\ BatchEntered /\ concurrent_evaluations = 0 =>
        /\ phase = "gathering"
        /\ semaphore = 0
        /\ \A k \in DOMAIN combinations :
            /\ lifecycle[k] = <<"pending">>
            /\ task[k] = "none"
            /\ invocations[k] = 0
            /\ produced[k] = NoResult
        /\ save_log = <<>>
        /\ db.rows = <<>>
        /\ summary = NoSummary

\* a batch of two or more combinations waiting at a semaphore of value 0
GateWithNoPermitsWitness ==
    /\ BatchEntered
    /\ concurrent_evaluations = 0
    /\ Len(combinations) >= 2
    /\ phase = "gathering"
    /\ semaphore = 0
    /\ ~ ENABLED (\E k \in DOMAIN combinations : Admit(k))

=============================================================================
